---- MODULE Spec2Model ----
(***************************************************************************)
(* ThinkOnlyOnce: the multi-agent stock-analysis workflow.                 *)
(*                                                                         *)
(*   - graph/orchestrator.py : router -> four analysts -> investment       *)
(*     analyst, the report aggregation (_build_report) and invoke;         *)
(*   - output/html_report.py : _parse_markdown_report, _markdown_to_html;  *)
(*   - tools/*.py            : the data-fetch collaborators;               *)
(*   - output/play_mode.py   : PlayAnimation (worker thread + render loop).*)
(*                                                                         *)
(* A Python str is a TLA+ string.  A multi-line text is the sequence of    *)
(* its lines (text.split("\n")), so the empty string is <<"">> and None    *)
(* is the empty sequence <<>>, which no split produces.                    *)
(***************************************************************************)
EXTENDS Integers, Sequences, FiniteSets, TLC

VARIABLES
    \* ---- report aggregation / parsing, applied as pure functions
    br_pc,          \* "input" -> "built" -> "parsed"
    br_result,      \* the dict handed to _build_report
    br_report,      \* the markdown it returned (lines)
    br_parsed,      \* what _parse_markdown_report returned for it
    \* ---- StockAnalyzerOrchestrator
    on_status,      \* self._on_status: "None", "update_status", "callback"
    agents,         \* self._*_agent is not None, per analyst
    state,          \* the AnalysisState threaded through the graph
    node,           \* per graph node, in the current superstep: "off", "ready",
                    \*   "running", "done", "failed"
    runs,           \* per graph node: how many times the node function was entered
    returns,        \* per graph node: how many times it returned an update
    updates,        \* per graph node: the update it returned in this superstep
    inv_pc,         \* invoke: "idle", "graph", "returned", "raised"
    inv_result,     \* the AnalysisResult invoke returned
    error,          \* the exception that left a node function, and so invoke
    agent_calls,    \* per analyst: the tickers its agent was invoked for
    outlook_calls,  \* the tickers generate_investment_outlook was called for
    notified,       \* per agent: the statuses _notify attempted, in order
    cb_raised,      \* whether the status callback raised on some call
    \* ---- PlayAnimation
    status,         \* self._status
    stop_event,     \* self._stop_event.is_set()
    failed,         \* self._failed
    analysis,       \* [result, error]: self._analysis_result / self._analysis_error
    worker,         \* the worker thread: "unstarted", "running", "sweep", "finished"
    sweep_i,        \* index of the sweep loop over _AGENT_LABELS
    main,           \* the calling thread inside run()
    frames,         \* completion frames drawn by the stop branch
    run_out,        \* what run() gave its caller: [kind, value]
    \* ---- _markdown_to_html, applied as a pure function
    md_pc,          \* "input" -> "converted"
    md_text,        \* the markdown text handed to it (lines)
    md_html,        \* the HTML it returned (lines)
    \* ---- the data-fetch collaborators (tools/*.py)
    tool_pc,        \* "idle" -> "called" -> "returned" | "raised"
    tool_call,      \* the tool called, its argument, what the external calls do
    tool_out,       \* what the tool returned
    \* ---- _generate_svg_chart, applied as a pure function
    svg_pc,         \* "input" -> "drawn"
    svg_closes,     \* the closing prices of price_history.data
    svg_out,        \* the chart it returned
    \* ---- parse_investment_outlook, applied as a pure function
    io_pc,          \* "input" -> "parsed"
    io_text,        \* the outlook text handed to it (lines)
    io_summary,     \* the InvestmentSummary it returned
    \* ---- generate_html_report, applied as a pure function
    doc_pc,         \* "input" -> "generated"
    doc_md,         \* the markdown report handed to it (lines)
    doc_html        \* the parts of the document that come from the report

br_vars   == <<br_pc, br_result, br_report, br_parsed>>
md_vars   == <<md_pc, md_text, md_html>>
tool_vars == <<tool_pc, tool_call, tool_out>>
svg_vars  == <<svg_pc, svg_closes, svg_out>>
io_vars   == <<io_pc, io_text, io_summary>>
doc_vars  == <<doc_pc, doc_md, doc_html>>
pure_vars == <<br_vars, md_vars, tool_vars, svg_vars, io_vars, doc_vars>>
orch_vars == <<on_status, agents, state, node, runs, returns, updates, inv_pc, inv_result,
               error,
               agent_calls, outlook_calls, notified, cb_raised>>
play_rest == <<stop_event, failed, analysis, worker, sweep_i, main, frames, run_out>>
play_vars == <<status, play_rest>>
vars      == <<pure_vars, orch_vars, play_vars>>

-----------------------------------------------------------------------------
(* Python values *)

None == <<>>

\* no exception
NoError == "None"

\* bool(text) for text: str | None
Truthy(t) == t # None /\ t # <<"">>

Whitespace == {" ", "\t"}

StartsWith(s, p) == Len(s) >= Len(p) /\ SubSeq(s, 1, Len(p)) = p

RECURSIVE LStrip(_)
LStrip(s) ==
    IF Len(s) > 0 /\ SubSeq(s, 1, 1) \in Whitespace
    THEN LStrip(SubSeq(s, 2, Len(s)))
    ELSE s

RECURSIVE RStrip(_)
RStrip(s) ==
    IF Len(s) > 0 /\ SubSeq(s, Len(s), Len(s)) \in Whitespace
    THEN RStrip(SubSeq(s, 1, Len(s) - 1))
    ELSE s

\* str.strip() of a one-line string
Strip(s) == RStrip(LStrip(s))

Lower == <<"a","b","c","d","e","f","g","h","i","j","k","l","m",
           "n","o","p","q","r","s","t","u","v","w","x","y","z">>
UpperOf == <<"A","B","C","D","E","F","G","H","I","J","K","L","M",
             "N","O","P","Q","R","S","T","U","V","W","X","Y","Z">>

\* the upper-case letter of each lower-case letter, and the reverse
ToUpper == [c \in {Lower[i] : i \in 1..26} |-> UpperOf[CHOOSE i \in 1..26 : Lower[i] = c]]
ToLower == [c \in {UpperOf[i] : i \in 1..26} |-> Lower[CHOOSE i \in 1..26 : UpperOf[i] = c]]

UpperChar(c) == IF c \in DOMAIN ToUpper THEN ToUpper[c] ELSE c
LowerChar(c) == IF c \in DOMAIN ToLower THEN ToLower[c] ELSE c

RECURSIVE Upper(_)
\* str.upper()
Upper(s) ==
    IF Len(s) = 0 THEN s
    ELSE UpperChar(SubSeq(s, 1, 1)) \o Upper(SubSeq(s, 2, Len(s)))

-----------------------------------------------------------------------------
(* graph/orchestrator.py: _build_report *)

H_TECH  == "## Technical Analysis"
H_FUND  == "## Fundamental Analysis"
H_NEWS  == "## News & Sentiment Analysis"
H_MACRO == "## Macro Analysis"
H_AI    == "## AI Investment Outlook"

TitlePrefix == "# Stock Analysis Report: "
Separator   == "---"
Footer      == "*Generated by Multi-Agent Stock Analyzer*"

\* f"{heading}\n{body}" as lines
Section(heading, body) == <<heading>> \o body

\* as AppendIf, with the guard `if result.get(key) is not None:`
AppendIfNotNone(sections, heading, body) ==
    IF body # None THEN Append(sections, Section(heading, body)) ELSE sections

\* sections.append(...) guarded by `if result.get(key):`
AppendIf(sections, heading, body) ==
    IF Truthy(body) THEN Append(sections, Section(heading, body)) ELSE sections

RECURSIVE Flatten(_)
Flatten(ss) == IF ss = <<>> THEN <<>> ELSE Head(ss) \o Flatten(Tail(ss))

\* chr(10).join(sections) as lines: the join of no strings is ""
JoinSections(ss) == IF ss = <<>> THEN <<"">> ELSE Flatten(ss)

BuildReport(result) ==
    LET s0 == <<>>
        s1 == AppendIf(s0, H_TECH,  result.technical_analysis)
        s2 == AppendIf(s1, H_FUND,  result.fundamental_analysis)
        s3 == AppendIf(s2, H_NEWS,  result.news_analysis)
        s4 == AppendIf(s3, H_MACRO, result.macro_analysis)
        s5 == AppendIf(s4, H_AI,    result.ai_outlook)
    IN  <<TitlePrefix \o result.ticker, "">>
            \o JoinSections(s5)
            \o <<"", Separator, Footer, "">>

-----------------------------------------------------------------------------
(* output/html_report.py: _parse_markdown_report *)

\* as SECTION_CONFIG, with one more key
SECTION_CONFIG_KeyLevels ==
    {"Technical Analysis", "Fundamental Analysis",
     "News & Sentiment Analysis", "AI Investment Outlook", "Key Levels"}

\* SECTION_CONFIG.keys()
SECTION_CONFIG ==
    {"Technical Analysis", "Fundamental Analysis",
     "News & Sentiment Analysis", "AI Investment Outlook"}

Digits == {"0","1","2","3","4","5","6","7","8","9"}

\* \w
WordChars == {Lower[i] : i \in 1..26} \cup {UpperOf[i] : i \in 1..26}
                \cup Digits \cup {"_"}

TitlePattern == "# Stock Analysis Report:"

RECURSIVE WordRun(_, _)
\* (\w+) matched greedily from column j of a line
WordRun(line, j) ==
    IF j <= Len(line) /\ SubSeq(line, j, j) \in WordChars
    THEN SubSeq(line, j, j) \o WordRun(line, j + 1)
    ELSE ""

RECURSIVE AfterSpace(_, _, _)
\* \s* from column j of line i: the word that follows the white space, which
\* may run over line ends; "" when no word character follows
AfterSpace(lines, i, j) ==
    IF i > Len(lines) THEN ""
    ELSE IF j > Len(lines[i]) THEN AfterSpace(lines, i + 1, 1)
    ELSE IF SubSeq(lines[i], j, j) \in Whitespace THEN AfterSpace(lines, i, j + 1)
    ELSE WordRun(lines[i], j)

\* the least element of a non-empty set of numbers
Min(S) == CHOOSE x \in S : \A y \in S : x <= y

\* the columns of line i at which the title pattern, white space and a word
\* match
TickerColumns(lines, i) ==
    {j \in 1..Len(lines[i]) :
        /\ SubSeq(lines[i], j, j) = "#"
        /\ j + Len(TitlePattern) - 1 <= Len(lines[i])
        /\ SubSeq(lines[i], j, j + Len(TitlePattern) - 1) = TitlePattern
        /\ AfterSpace(lines, i, j + Len(TitlePattern)) # ""}

\* re.search(r"# Stock Analysis Report:\s*(\w+)", markdown_report): group 1
\* of the leftmost match, "" when there is no match
SearchTicker(lines) ==
    LET ls == {i \in 1..Len(lines) : TickerColumns(lines, i) # {}}
    IN  IF ls = {} THEN ""
        ELSE AfterSpace(lines, Min(ls),
                        Min(TickerColumns(lines, Min(ls))) + Len(TitlePattern))

\* as ParseTicker, without the default
ParseTickerNoDefault(lines) == SearchTicker(lines)

\* ticker = ticker_match.group(1) if ticker_match else "UNKNOWN"
ParseTicker(lines) ==
    IF SearchTicker(lines) # "" THEN SearchTicker(lines) ELSE "UNKNOWN"

IsBlank(line) == Strip(line) = ""

RECURSIVE DropBlankHead(_)
DropBlankHead(ls) ==
    IF ls # <<>> /\ IsBlank(Head(ls)) THEN DropBlankHead(Tail(ls)) ELSE ls

RECURSIVE DropBlankTail(_)
DropBlankTail(ls) ==
    IF ls # <<>> /\ IsBlank(ls[Len(ls)])
    THEN DropBlankTail(SubSeq(ls, 1, Len(ls) - 1))
    ELSE ls

\* "\n".join(current_content).strip(), as lines
JoinStrip(content) ==
    LET core == DropBlankTail(DropBlankHead(content))
        n    == Len(core)
    IN  IF n = 0 THEN <<"">>
        ELSE [k \in 1..n |->
                 IF n = 1 THEN Strip(core[k])
                 ELSE IF k = 1 THEN LStrip(core[k])
                 ELSE IF k = n THEN RStrip(core[k])
                 ELSE core[k]]

NoTitle == "<None>"

\* as Skipped, with only the title prefix
SkippedTitleOnly(line) == StartsWith(line, "# ")

\* line.startswith("# ") or line.startswith("---") or line.startswith("*Generated")
Skipped(line) ==
    StartsWith(line, "# ") \/ StartsWith(line, "---") \/ StartsWith(line, "*Generated")

\* the loop state before the first line
ParseStart == [sections |-> <<>>, title |-> NoTitle, content |-> <<>>]

\* one iteration of `for line in markdown_report.split("\n")`
ParseLine(st, line) ==
    IF StartsWith(line, "## ")
    THEN LET header_title == Strip(SubSeq(line, 4, Len(line)))
         IN  IF header_title \in SECTION_CONFIG
             THEN [sections |->
                       IF st.title # NoTitle
                       THEN Append(st.sections, <<st.title, JoinStrip(st.content)>>)
                       ELSE st.sections,
                   title   |-> header_title,
                   content |-> <<>>]
             ELSE IF st.title # NoTitle
             THEN [st EXCEPT !.content = Append(@, "### " \o header_title)]
             ELSE st
    ELSE IF Skipped(line)
    THEN st
    ELSE IF st.title # NoTitle
    THEN [st EXCEPT !.content = Append(@, line)]
    ELSE st

RECURSIVE ParseLines(_, _)
ParseLines(st, lines) ==
    IF lines = <<>> THEN st
    ELSE ParseLines(ParseLine(st, Head(lines)), Tail(lines))

\* as ParseMarkdownReport, saving the last section only when it has content
ParseMarkdownReportNonEmptyLast(lines) ==
    LET st == ParseLines(ParseStart, lines)
    IN  [ticker   |-> ParseTicker(lines),
         sections |-> IF st.title # NoTitle /\ st.content # <<>>
                      THEN Append(st.sections, <<st.title, JoinStrip(st.content)>>)
                      ELSE st.sections]

\* _parse_markdown_report(markdown_report)
ParseMarkdownReport(lines) ==
    LET st == ParseLines(ParseStart, lines)
    IN  [ticker   |-> ParseTicker(lines),
         sections |-> IF st.title # NoTitle
                      THEN Append(st.sections, <<st.title, JoinStrip(st.content)>>)
                      ELSE st.sections]

-----------------------------------------------------------------------------
(* models.py: parse_investment_outlook *)

RECURSIVE LowerStr(_)
\* str.lower()
LowerStr(s) ==
    IF Len(s) = 0 THEN s
    ELSE LowerChar(SubSeq(s, 1, 1)) \o LowerStr(SubSeq(s, 2, Len(s)))

\* str.capitalize()
Capitalize(s) ==
    IF Len(s) = 0 THEN s
    ELSE UpperChar(SubSeq(s, 1, 1)) \o LowerStr(SubSeq(s, 2, Len(s)))

RECURSIVE JoinLines(_)
\* "\n".join(lines): the text as one string
JoinLines(lines) ==
    IF Len(lines) = 0 THEN ""
    ELSE IF Len(lines) = 1 THEN lines[1]
    ELSE lines[1] \o "\n" \o JoinLines(Tail(lines))

\* \s
Space == Whitespace \cup {"\n"}

\* the literal `lit` at index i of s, under re.IGNORECASE
LitAt(s, i, lit) ==
    /\ i + Len(lit) - 1 <= Len(s)
    /\ UpperChar(SubSeq(s, i, i)) = UpperChar(SubSeq(lit, 1, 1))
    /\ Upper(SubSeq(s, i, i + Len(lit) - 1)) = Upper(lit)

RECURSIVE SkipSpace(_, _)
\* the index after a greedy \s* from index i
SkipSpace(s, i) ==
    IF i <= Len(s) /\ SubSeq(s, i, i) \in Space THEN SkipSpace(s, i + 1) ELSE i

RECURSIVE CharRunEnd(_, _, _)
\* the index after the longest run of characters of `set` from index i
CharRunEnd(s, i, set) ==
    IF i <= Len(s) /\ SubSeq(s, i, i) \in set THEN CharRunEnd(s, i + 1, set) ELSE i

RecLit    == "**Recommendation:**"
PriceLit  == "**Price Target:**"
ThesisLit == "**Investment Thesis:**"
ConfLit   == "Confidence)"
RecWords  == <<"BUY", "HOLD", "SELL">>

Max(S) == CHOOSE x \in S : \A y \in S : y <= x

\* (BUY|HOLD|SELL)\s*\((\w+)\s*Confidence\) tried at index i (after the
\* marker and its white space): <<group 1, group 2>>, or <<>> for no match
RecAt(s, i) ==
    LET ks == {k \in 1..3 : LitAt(s, i, RecWords[k])}
    IN  IF ks = {} THEN <<>>
        ELSE LET k  == CHOOSE x \in ks : TRUE
                 j  == SkipSpace(s, i + Len(RecWords[k]))
                 w0 == j + 1
                 w1 == CharRunEnd(s, w0, WordChars)
                 \* \w+ is greedy and gives characters back until the rest matches
                 es == {e \in (w0 + 1)..w1 :
                           LitAt(s, IF e = w1 THEN SkipSpace(s, e) ELSE e, ConfLit)}
             IN  IF j <= Len(s) /\ SubSeq(s, j, j) = "(" /\ es # {}
                 THEN <<SubSeq(s, i, i + Len(RecWords[k]) - 1),
                        SubSeq(s, w0, Max(es) - 1)>>
                 ELSE <<>>

\* the indices at which a marker stands, under re.IGNORECASE
MarkerAt(s, lit) == {i \in 1..Len(s) : LitAt(s, i, lit)}

\* re.search of the recommendation pattern: the groups of the leftmost match
SearchRec(s) ==
    LET ms == {i \in MarkerAt(s, RecLit) :
                  RecAt(s, SkipSpace(s, i + Len(RecLit))) # <<>>}
    IN  IF ms = {} THEN <<>> ELSE RecAt(s, SkipSpace(s, Min(ms) + Len(RecLit)))

\* (\$[\d,.]+\s*\([^)]+\)) tried at index i: the group, or "" for no match
PriceAt(s, i) ==
    LET d1 == CharRunEnd(s, i + 1, Digits \cup {",", "."})
        j  == SkipSpace(s, d1)
        cs == {c \in (j + 1)..Len(s) : SubSeq(s, c, c) = ")"}
    IN  IF /\ i <= Len(s) /\ SubSeq(s, i, i) = "$"
           /\ d1 > i + 1
           /\ j <= Len(s) /\ SubSeq(s, j, j) = "("
           /\ cs # {}
           /\ Min(cs) > j + 1
        THEN SubSeq(s, i, Min(cs))
        ELSE ""

\* re.search of the price-target pattern: the group of the leftmost match
SearchPrice(s) ==
    LET ms == {i \in MarkerAt(s, PriceLit) :
                  PriceAt(s, SkipSpace(s, i + Len(PriceLit))) # ""}
    IN  IF ms = {} THEN "" ELSE PriceAt(s, SkipSpace(s, Min(ms) + Len(PriceLit)))

\* the last index of the shortest (.+?) from index b that (?:\n\n|\Z) follows
LazyEnd(s, b) ==
    Min({q \in b..Len(s) :
            q = Len(s) \/ (q + 2 <= Len(s) /\ SubSeq(s, q + 1, q + 2) = "\n\n")})

\* \s*(.+?)(?:\n\n|\Z) under re.DOTALL from index i (after the marker):
\* <<TRUE, group>>, or <<FALSE, "">> when nothing follows the marker
ThesisAt(s, i) ==
    LET j == SkipSpace(s, i)
        \* \s* gives one character back when it has eaten the rest of the text
        b == IF j > Len(s) /\ j > i THEN j - 1 ELSE j
    IN  IF b > Len(s) THEN <<FALSE, "">>
        ELSE <<TRUE, SubSeq(s, b, LazyEnd(s, b))>>

\* re.search of the thesis pattern: the leftmost match
SearchThesis(s) ==
    LET ms == {i \in MarkerAt(s, ThesisLit) : ThesisAt(s, i + Len(ThesisLit))[1]}
    IN  IF ms = {} THEN <<FALSE, "">> ELSE ThesisAt(s, Min(ms) + Len(ThesisLit))

RECURSIVE StripAll(_)
\* str.strip() of a text that may hold line ends
StripAll(s) ==
    IF Len(s) > 0 /\ SubSeq(s, 1, 1) \in Space THEN StripAll(SubSeq(s, 2, Len(s)))
    ELSE IF Len(s) > 0 /\ SubSeq(s, Len(s), Len(s)) \in Space
    THEN StripAll(SubSeq(s, 1, Len(s) - 1))
    ELSE s

\* as ParseInvestmentOutlook, with the groups as they stand in the text
ParseInvestmentOutlookAsWritten(outlook_text) ==
    LET s   == JoinLines(outlook_text)
        rec == SearchRec(s)
        th  == SearchThesis(s)
    IN  [recommendation |-> IF rec # <<>> THEN rec[1] ELSE "N/A",
         confidence     |-> IF rec # <<>> THEN rec[2] ELSE "N/A",
         price_target   |-> IF SearchPrice(s) # "" THEN SearchPrice(s) ELSE "N/A",
         thesis         |-> IF th[1] THEN StripAll(th[2]) ELSE "N/A"]

\* parse_investment_outlook
ParseInvestmentOutlook(outlook_text) ==
    LET s   == JoinLines(outlook_text)
        rec == SearchRec(s)
        th  == SearchThesis(s)
    IN  [recommendation |-> IF rec # <<>> THEN Upper(rec[1]) ELSE "N/A",
         confidence     |-> IF rec # <<>> THEN Capitalize(rec[2]) ELSE "N/A",
         price_target   |-> IF SearchPrice(s) # "" THEN SearchPrice(s) ELSE "N/A",
         thesis         |-> IF th[1] THEN StripAll(th[2]) ELSE "N/A"]

-----------------------------------------------------------------------------
(* Inputs of the report functions *)

\* what an analyst or the synthesizer can hand back: nothing, the empty
\* string, plain prose, prose with a sub-heading of its own, prose that
\* repeats a section heading
Texts ==
    { None,
      <<"">>,
      <<"Price is above the 50-day average.">>,
      <<"Summary", "## Key Levels", "- support 100">>,
      <<"Overview", "## Fundamental Analysis", "P/E 30">> }

ReportTickers == {"AAPL", "UNKNOWN", "BRK.B", ""}

NoResult == [ticker |-> "", technical_analysis |-> None, fundamental_analysis |-> None,
             news_analysis |-> None, macro_analysis |-> None, ai_outlook |-> None]

NoParse == [ticker |-> "", sections |-> <<>>]

\* final_report = self._build_report(result)
DoBuildReport ==
    /\ br_pc = "input"
    /\ br_report' = BuildReport(br_result)
    /\ br_pc' = "built"
    /\ UNCHANGED <<br_result, br_parsed, md_vars, tool_vars, svg_vars, io_vars, doc_vars, orch_vars, play_vars>>

\* ticker, sections = _parse_markdown_report(markdown_report)
DoParseReport ==
    /\ br_pc = "built"
    /\ br_parsed' = ParseMarkdownReport(br_report)
    /\ br_pc' = "parsed"
    /\ UNCHANGED <<br_result, br_report, md_vars, tool_vars, svg_vars, io_vars, doc_vars, orch_vars, play_vars>>


-----------------------------------------------------------------------------
(* enums.py, graph/state.py *)

ROUTER              == "router"
TECHNICAL_ANALYST   == "technical_analyst"
FUNDAMENTAL_ANALYST == "fundamental_analyst"
NEWS_ANALYST        == "news_analyst"
MACRO_ANALYST       == "macro_analyst"
INVESTMENT_ANALYST  == "investment_analyst"

Analysts == {TECHNICAL_ANALYST, FUNDAMENTAL_ANALYST, NEWS_ANALYST, MACRO_ANALYST}
AgentEnum == {ROUTER, INVESTMENT_ANALYST} \cup Analysts

WAIT    == "wait"
RUNNING == "running"
DONE    == "done"
SKIPPED == "skipped"

\* the state key an analyst node reads its flag from
RunKey(a) ==
    CASE a = TECHNICAL_ANALYST   -> "run_technical"
      [] a = FUNDAMENTAL_ANALYST -> "run_fundamental"
      [] a = NEWS_ANALYST        -> "run_news"
      [] a = MACRO_ANALYST       -> "run_macro"

\* as OutKey, with every analyst returning the technical analyst's key
OutKeyShared(a) == "technical_analysis"

\* the state key an analyst node returns
OutKey(a) ==
    CASE a = TECHNICAL_ANALYST   -> "technical_analysis"
      [] a = FUNDAMENTAL_ANALYST -> "fundamental_analysis"
      [] a = NEWS_ANALYST        -> "news_analysis"
      [] a = MACRO_ANALYST       -> "macro_analysis"

\* the HumanMessage an analyst node sends its agent
Prompt(a, ticker) ==
    CASE a = TECHNICAL_ANALYST   -> "Analyze " \o ticker
      [] a = FUNDAMENTAL_ANALYST -> "Analyze " \o ticker
      [] a = NEWS_ANALYST        -> "Analyze news for " \o ticker
      [] a = MACRO_ANALYST       -> "Assess macro conditions for " \o ticker

\* initial_state of invoke (the messages list is never written)
InitialState(query) ==
    [query |-> query, ticker |-> "",
     run_technical |-> FALSE, run_fundamental |-> FALSE,
     run_news |-> FALSE, run_macro |-> FALSE,
     technical_analysis |-> None, fundamental_analysis |-> None,
     news_analysis |-> None, macro_analysis |-> None,
     ai_outlook |-> None]

-----------------------------------------------------------------------------
(* graph/orchestrator.py: the workflow graph *)

START == "__start__"
END   == "__end__"

FanOut == {<<ROUTER, a>> : a \in Analysts}
FanIn  == {<<a, INVESTMENT_ANALYST>> : a \in Analysts}

\* as Edges, with an edge that lets the router trigger the investment analyst
EdgesWithShortcut ==
    {<<START, ROUTER>>, <<ROUTER, INVESTMENT_ANALYST>>, <<INVESTMENT_ANALYST, END>>}
        \cup FanOut \cup FanIn

\* the edges added by build()
Edges == {<<START, ROUTER>>} \cup FanOut \cup FanIn \cup {<<INVESTMENT_ANALYST, END>>}

\* the nodes a set of finished nodes triggers for the next superstep
Triggered(ran) == {m \in AgentEnum : \E n \in ran : <<n, m>> \in Edges}

NoUpdate == [k \in {} |-> None]

\* the state after the updates returned in one superstep are written
Merge(st, ups) ==
    [k \in DOMAIN st |->
        IF \E n \in AgentEnum : k \in DOMAIN ups[n]
        THEN ups[CHOOSE n \in AgentEnum : k \in DOMAIN ups[n]][k]
        ELSE st[k]]

-----------------------------------------------------------------------------
(* graph/orchestrator.py: _notify *)

\* what a call of the registered callback does
CallbackOutcomes(cb) == IF cb = "callback" THEN {"ok", "raise"} ELSE {"ok"}

\* as NotifyPropagates, without the try / except around the callback
NotifyUnguarded(outcome) == outcome = "raise"

\* whether an exception raised by the callback leaves _notify
NotifyPropagates(outcome) == FALSE

\* self._notify(agent, st) with the callback behaving as `outcome`
Notify(agent, st, outcome) ==
    /\ notified' = IF on_status # "None"
                   THEN [notified EXCEPT ![agent] = Append(@, st)]
                   ELSE notified
    /\ status' = IF on_status = "update_status"
                 THEN [status EXCEPT ![agent] = st]
                 ELSE status
    /\ cb_raised' = (cb_raised \/ (on_status # "None" /\ outcome = "raise"))


-----------------------------------------------------------------------------
(* What the collaborators of the orchestrator can answer *)

Query == "Check AAPL technicals"

Prose     == <<"Price is above the 50-day average.">>
SubHeaded == <<"Summary", "## Key Levels", "- support 100">>
Echo      == <<"Overview", "## Fundamental Analysis", "P/E 30">>

BuyOutlook ==
    <<"**Recommendation:** BUY (High Confidence)",
      "",
      "**Price Target:** $150 (+10% from current)",
      "",
      "**Investment Thesis:**",
      "Strong trend and earnings.">>

\* decision.ticker of route_query
RouterTickers == {"AAPL", "", "UNKNOWN", " unknown "}

\* result["messages"] of an analyst agent: the contents of its messages
AgentReplies == {<<Prose>>, <<Prose, Echo>>, <<Echo, <<"">>>>}

\* the text generate_investment_outlook returns
OutlookTexts == {BuyOutlook, <<"">>}

-----------------------------------------------------------------------------
(* graph/orchestrator.py: the node functions *)

Last(seq) == seq[Len(seq)]

\* the first statement of every node: self._notify(<agent>, RUNNING)
NodeEnter(n) ==
    /\ inv_pc = "graph"
    /\ node[n] = "ready"
    /\ runs' = [runs EXCEPT ![n] = @ + 1]
    /\ \E o \in CallbackOutcomes(on_status) :
          /\ Notify(n, RUNNING, o)
          /\ node' = [node EXCEPT ![n] = IF NotifyPropagates(o) THEN "failed" ELSE "running"]
          /\ error' = IF NotifyPropagates(o) /\ error = NoError THEN "CallbackError" ELSE error
    /\ UNCHANGED <<on_status, agents, state, returns, updates, inv_pc, inv_result,
                   agent_calls, outlook_calls>>

\* a node function returns `update`, after self._notify(n, st)
NodeReturn(n, st, update) ==
    \E o \in CallbackOutcomes(on_status) :
       /\ Notify(n, st, o)
       /\ IF NotifyPropagates(o)
          THEN /\ node' = [node EXCEPT ![n] = "failed"]
               /\ error' = IF error = NoError THEN "CallbackError" ELSE error
               /\ UNCHANGED <<returns, updates>>
          ELSE /\ node' = [node EXCEPT ![n] = "done"]
               /\ returns' = [returns EXCEPT ![n] = @ + 1]
               /\ updates' = [updates EXCEPT ![n] = update]
               /\ UNCHANGED error

\* a node function is left by an exception of a collaborator
NodeRaise(n) ==
    /\ node' = [node EXCEPT ![n] = "failed"]
    /\ error' = IF error = NoError THEN "CollaboratorError" ELSE error
    /\ UNCHANGED <<returns, updates, notified, status, cb_raised>>

\* router_node, after the RUNNING notification
RouterNode ==
    /\ inv_pc = "graph"
    /\ node[ROUTER] = "running"
    /\ \/ \* route_query raises
          NodeRaise(ROUTER)
       \/ \E t \in RouterTickers, rt \in BOOLEAN, rf \in BOOLEAN,
             rn \in BOOLEAN, rm \in BOOLEAN :
             NodeReturn(ROUTER, DONE,
                        [ticker |-> t, run_technical |-> rt, run_fundamental |-> rf,
                         run_news |-> rn, run_macro |-> rm])
    /\ UNCHANGED <<on_status, agents, state, runs, inv_pc, inv_result,
                   agent_calls, outlook_calls>>

\* as ReplyContent, reading result["messages"][0]
ReplyContentFirst(messages) == Head(messages)

\* content = result["messages"][-1].content
ReplyContent(messages) == Last(messages)

\* as Skips, with the flag ignored
SkipsNever(a) == FALSE

\* as Skips, with every analyst skipped
SkipsAlways(a) == TRUE

\* `if not state.get("run_..."):`
Skips(a) == ~state[RunKey(a)]

\* technical_ / fundamental_ / news_ / macro_analysis_node, after the RUNNING
\* notification
AnalystNode(a) ==
    /\ inv_pc = "graph"
    /\ node[a] = "running"
    /\ \/ \* the node is skipped
          /\ Skips(a)
          /\ NodeReturn(a, SKIPPED, [k \in {OutKey(a)} |-> None])
          /\ UNCHANGED <<agents, agent_calls>>
       \/ \* the agent property fails to create the agent
          /\ ~Skips(a)
          /\ ~agents[a]
          /\ NodeRaise(a)
          /\ UNCHANGED <<agents, agent_calls>>
       \/ \* the agent is invoked and raises
          /\ ~Skips(a)
          /\ agents' = [agents EXCEPT ![a] = TRUE]
          /\ agent_calls' = [agent_calls EXCEPT ![a] =
                Append(@, [prompt |-> Prompt(a, state.ticker), messages |-> <<>>])]
          /\ NodeRaise(a)
       \/ \* the agent is invoked and answers
          /\ ~Skips(a)
          /\ agents' = [agents EXCEPT ![a] = TRUE]
          /\ \E msgs \in AgentReplies :
                /\ agent_calls' = [agent_calls EXCEPT ![a] =
                      Append(@, [prompt |-> Prompt(a, state.ticker), messages |-> msgs])]
                /\ NodeReturn(a, DONE, [k \in {OutKey(a)} |-> ReplyContent(msgs)])
    /\ UNCHANGED <<on_status, state, runs, inv_pc, inv_result, outlook_calls>>

\* the outlook returned when no ticker was identified
CannedOutlook ==
    <<"**Recommendation:** N/A (Low Confidence)",
      "",
      "**Price Target:** N/A (N/A from current)",
      "- Ticker was not provided or could not be identified. Please specify a stock ticker (e.g., NVDA, AAPL).",
      "",
      "**Risk Assessment:** HIGH",
      "- Key Risks:",
      "  1. Unknown ticker / ambiguous query",
      "  2. Missing inputs for analysis",
      "  3. Potentially incorrect assumptions if we proceed",
      "",
      "**Investment Thesis:**",
      "Provide a ticker and (optionally) what you care about (valuation, trend, news, macro) to generate an actionable outlook.",
      "">>

\* as NoTicker, comparing the ticker as the router gave it
NoTickerExact(raw) == raw = "" \/ raw = "UNKNOWN"

\* `if not ticker or ticker.upper() == "UNKNOWN":` with ticker stripped
NoTicker(raw) == Strip(raw) = "" \/ Upper(Strip(raw)) = "UNKNOWN"

\* investment_analyst_node, after the RUNNING notification
InvestmentNode ==
    /\ inv_pc = "graph"
    /\ node[INVESTMENT_ANALYST] = "running"
    /\ \/ /\ NoTicker(state.ticker)
          /\ NodeReturn(INVESTMENT_ANALYST, DONE, [ai_outlook |-> CannedOutlook])
          /\ UNCHANGED outlook_calls
       \/ \* generate_investment_outlook raises
          /\ ~NoTicker(state.ticker)
          /\ outlook_calls' = Append(outlook_calls, [ticker |-> state.ticker, text |-> None])
          /\ NodeRaise(INVESTMENT_ANALYST)
       \/ /\ ~NoTicker(state.ticker)
          /\ \E text \in OutlookTexts :
                /\ outlook_calls' =
                      Append(outlook_calls, [ticker |-> state.ticker, text |-> text])
                /\ NodeReturn(INVESTMENT_ANALYST, DONE, [ai_outlook |-> text])
    /\ UNCHANGED <<on_status, agents, state, runs, inv_pc, inv_result, agent_calls>>

-----------------------------------------------------------------------------
(* graph/orchestrator.py: invoke, and the run of the compiled graph *)

NoAnalysisResult ==
    [final_report |-> None,
     summary |-> [recommendation |-> "", confidence |-> "", price_target |-> "",
                  thesis |-> ""],
     ticker |-> ""]

Active == {n \in AgentEnum : node[n] # "off"}

\* invoke up to the first superstep of graph.invoke(initial_state)
InvokeBegin(cb) ==
    /\ inv_pc = "idle"
    /\ on_status' = cb
    /\ state' = InitialState(Query)
    /\ node' = [n \in AgentEnum |-> IF n \in Triggered({START}) THEN "ready" ELSE "off"]
    /\ updates' = [n \in AgentEnum |-> NoUpdate]
    /\ inv_pc' = "graph"
    /\ UNCHANGED <<agents, runs, returns, inv_result, error, agent_calls,
                   outlook_calls, notified, cb_raised, status>>

\* parse_investment_outlook, computed once for the outlooks of this model
SummaryTable ==
    [t \in {BuyOutlook, CannedOutlook, <<"">>} |-> ParseInvestmentOutlook(t)]

Summary(text) ==
    IF text \in DOMAIN SummaryTable THEN SummaryTable[text]
    ELSE ParseInvestmentOutlook(text)

\* the rest of invoke once graph.invoke has returned `result`
InvokeTail(result) ==
    /\ on_status' = "None"
    /\ inv_result' = [final_report |-> BuildReport(result),
                      summary |-> Summary(IF Truthy(result.ai_outlook)
                                          THEN result.ai_outlook ELSE <<"">>),
                      ticker |-> result.ticker]
    /\ inv_pc' = "returned"

\* the end of a superstep: every task of it has ended
EndStep ==
    /\ inv_pc = "graph"
    /\ Active # {}
    /\ \A n \in Active : node[n] \in {"done", "failed"}
    /\ updates' = [n \in AgentEnum |-> NoUpdate]
    /\ IF \E n \in Active : node[n] # "done"
       THEN \* graph.invoke raises, and so does invoke
            /\ node' = [n \in AgentEnum |-> "off"]
            /\ inv_pc' = "raised"
            /\ UNCHANGED <<on_status, state, inv_result>>
       ELSE /\ state' = Merge(state, updates)
            /\ node' = [n \in AgentEnum |->
                           IF n \in Triggered(Active) THEN "ready" ELSE "off"]
            /\ IF Triggered(Active) = {}
               THEN InvokeTail(Merge(state, updates))
               ELSE UNCHANGED <<on_status, inv_pc, inv_result>>
    /\ UNCHANGED <<agents, runs, returns, error, agent_calls, outlook_calls, notified,
                   cb_raised, status>>


-----------------------------------------------------------------------------
(* output/play_mode.py: PlayAnimation *)

\* the keys of _AGENT_LABELS, in order
AGENT_LABELS == <<ROUTER, TECHNICAL_ANALYST, FUNDAMENTAL_ANALYST, NEWS_ANALYST,
                  MACRO_ANALYST, INVESTMENT_ANALYST>>

\* `for _ in range(20)` of the stop branch
CompletionFrames == 20

\* run(): self._analysis_fn = analysis_fn, then Screen.wrapper(self._render_loop)
RunBegin ==
    /\ main = "idle"
    /\ \/ \* Screen.wrapper raises before it calls the render loop
          /\ failed' = TRUE
          /\ main' = "after_wrapper"
          /\ UNCHANGED worker
       \/ \* _render_loop: the geometry is computed and the worker is started
          /\ worker' = "started"
          /\ main' = "loop"
          /\ UNCHANGED failed
    /\ UNCHANGED <<stop_event, analysis, sweep_i, frames, run_out, status,
                   pure_vars, orch_vars>>

\* _worker: self._analysis_result = self._analysis_fn(), which is
\* orchestrator.invoke(query, on_status=anim.update_status, quiet=True)
WorkerCall ==
    /\ worker = "started"
    /\ InvokeBegin("update_status")
    /\ worker' = "running"
    /\ UNCHANGED <<stop_event, failed, analysis, sweep_i, main, frames, run_out, pure_vars>>

\* _worker: the analysis function has returned, or `except Exception as exc`
WorkerResult ==
    /\ worker = "running"
    /\ \/ /\ inv_pc = "returned"
          /\ analysis' = [analysis EXCEPT !.result = inv_result]
       \/ /\ inv_pc = "raised"
          /\ analysis' = [analysis EXCEPT !.error = error]
    /\ worker' = "sweep"
    /\ sweep_i' = 1
    /\ UNCHANGED <<stop_event, failed, main, frames, run_out, status, pure_vars, orch_vars>>

\* as SweepMarks, without preserving "skipped"
SweepMarksSkipped(st) == st # DONE

\* as SweepMarks, with no entry overwritten
SweepMarksNone(st) == FALSE

\* whether the sweep overwrites an entry
SweepMarks(st) == st \notin {DONE, SKIPPED}

\* _worker, finally: one iteration of the loop over _AGENT_LABELS
WorkerSweep ==
    /\ worker = "sweep"
    /\ sweep_i <= Len(AGENT_LABELS)
    /\ status' = IF SweepMarks(status[AGENT_LABELS[sweep_i]])
                 THEN [status EXCEPT ![AGENT_LABELS[sweep_i]] = DONE]
                 ELSE status
    /\ sweep_i' = sweep_i + 1
    /\ UNCHANGED <<stop_event, failed, analysis, worker, main, frames, run_out,
                   pure_vars, orch_vars>>

\* _worker, finally: self._stop_event.set(), and the thread ends
WorkerStop ==
    /\ worker = "sweep"
    /\ sweep_i > Len(AGENT_LABELS)
    /\ stop_event' = TRUE
    /\ worker' = "finished"
    /\ UNCHANGED <<failed, analysis, sweep_i, main, frames, run_out, status,
                   pure_vars, orch_vars>>

\* as RenderFrame, with the stop branch taken whether the event is set or not
RenderFrameUnguarded ==
    /\ main = "loop"
    /\ main' = "complete"
    /\ frames' = 0
    /\ UNCHANGED <<stop_event, failed, analysis, worker, sweep_i, run_out, status,
                   pure_vars, orch_vars>>

\* _render_loop: one pass of `while True`
RenderFrame ==
    /\ main = "loop"
    /\ \/ \* the stop branch is taken
          /\ stop_event
          /\ main' = "complete"
          /\ frames' = 0
       \/ \* a normal frame whose drawing raises: `except Exception: break`
          /\ ~stop_event
          /\ main' = "join"
          /\ UNCHANGED frames
    /\ UNCHANGED <<stop_event, failed, analysis, worker, sweep_i, run_out, status,
                   pure_vars, orch_vars>>

\* _render_loop: the frames of the stop branch, drawn outside any try
CompletionFrame ==
    /\ main = "complete"
    /\ \/ /\ frames < CompletionFrames
          /\ frames' = frames + 1
          /\ UNCHANGED <<main, failed>>
       \/ \* a drawing step raises: Screen.wrapper raises, run() catches it
          /\ frames < CompletionFrames
          /\ failed' = TRUE
          /\ main' = "after_wrapper"
          /\ UNCHANGED frames
       \/ /\ frames = CompletionFrames
          /\ main' = "join"
          /\ UNCHANGED <<frames, failed>>
    /\ UNCHANGED <<stop_event, analysis, worker, sweep_i, run_out, status,
                   pure_vars, orch_vars>>

\* worker.join(timeout=5): it returns when the thread has ended, and after
\* five seconds whether it has or not
Join ==
    /\ main = "join"
    /\ \/ worker = "finished"
       \/ \* the timeout expires with the thread still alive
          worker # "finished"
    /\ main' = "after_wrapper"
    /\ UNCHANGED <<stop_event, failed, analysis, worker, sweep_i, frames, run_out,
                   status, pure_vars, orch_vars>>

\* run(): self._raise_if_failed(); return self._analysis_result
RunEnd ==
    /\ main = "after_wrapper"
    /\ IF analysis.error # NoError
       THEN /\ main' = "raised"
            /\ run_out' = [kind |-> "raise", error |-> analysis.error,
                           value |-> NoAnalysisResult]
       ELSE /\ main' = "returned"
            /\ run_out' = [kind |-> "return", error |-> NoError,
                           value |-> analysis.result]
    /\ UNCHANGED <<stop_event, failed, analysis, worker, sweep_i, frames, status,
                   pure_vars, orch_vars>>

-----------------------------------------------------------------------------
(* Specifications *)

\* a graph step taken inside invoke
GraphStep(A) == A /\ UNCHANGED <<pure_vars, play_rest>>

\* invoke called directly (main._run_quiet, or a caller with its own callback)
DirectInvoke ==
    /\ main = "direct"
    /\ \E cb \in {"None", "callback"} : InvokeBegin(cb)
    /\ UNCHANGED <<pure_vars, play_rest>>

BrIdle ==
    /\ br_pc = "off"
    /\ br_result = NoResult
    /\ br_report = None
    /\ br_parsed = NoParse

\* _markdown_to_html is not being applied
MdIdle ==
    /\ md_pc = "off"
    /\ md_text = <<"">>
    /\ md_html = <<"">>

\* no tool is being called
ToolIdle ==
    /\ tool_pc = "off"
    /\ tool_call = [tool |-> "None"]
    /\ tool_out = [kind |-> "None"]

\* _generate_svg_chart is not being applied
SvgIdle ==
    /\ svg_pc = "off"
    /\ svg_closes = <<>>
    /\ svg_out = [empty |-> TRUE]

\* parse_investment_outlook is not being applied
OutlookIdle ==
    /\ io_pc = "off"
    /\ io_text = <<"">>
    /\ io_summary = [recommendation |-> "", confidence |-> "", price_target |-> "",
                     thesis |-> ""]

\* generate_html_report is not being applied
DocIdle ==
    /\ doc_pc = "off"
    /\ doc_md = <<"">>
    /\ doc_html = [ticker |-> "", recommendation_summary |-> <<"">>, sections |-> <<>>]

OrchInit ==
    /\ on_status = "None"
    /\ agents = [a \in Analysts |-> FALSE]
    /\ state = InitialState("")
    /\ node = [n \in AgentEnum |-> "off"]
    /\ runs = [n \in AgentEnum |-> 0]
    /\ returns = [n \in AgentEnum |-> 0]
    /\ updates = [n \in AgentEnum |-> NoUpdate]
    /\ inv_pc = "idle"
    /\ inv_result = NoAnalysisResult
    /\ error = NoError
    /\ agent_calls = [a \in Analysts |-> <<>>]
    /\ outlook_calls = <<>>
    /\ notified = [n \in AgentEnum |-> <<>>]
    /\ cb_raised = FALSE

PlayInit ==
    /\ status = [n \in AgentEnum |-> WAIT]
    /\ stop_event = FALSE
    /\ failed = FALSE
    /\ analysis = [result |-> NoAnalysisResult, error |-> NoError]
    /\ worker = "unstarted"
    /\ sweep_i = 0
    /\ frames = 0
    /\ run_out = [kind |-> "none", error |-> NoError, value |-> NoAnalysisResult]

\* the orchestrator, invoked directly
Init == BrIdle /\ MdIdle /\ ToolIdle /\ SvgIdle /\ OutlookIdle /\ DocIdle /\ OrchInit /\ PlayInit /\ main = "direct"

Next ==
    \/ DirectInvoke
    \/ \E n \in AgentEnum : GraphStep(NodeEnter(n))
    \/ GraphStep(RouterNode)
    \/ \E a \in Analysts : GraphStep(AnalystNode(a))
    \/ GraphStep(InvestmentNode)
    \/ GraphStep(EndStep)

Spec == Init /\ [][Next]_vars

\* the orchestrator, invoked by the worker thread of a PlayAnimation
InitPlay == BrIdle /\ MdIdle /\ ToolIdle /\ SvgIdle /\ OutlookIdle /\ DocIdle /\ OrchInit /\ PlayInit /\ main = "idle"

NextPlay ==
    \/ RunBegin
    \/ WorkerCall
    \/ \E n \in AgentEnum : GraphStep(NodeEnter(n))
    \/ GraphStep(RouterNode)
    \/ \E a \in Analysts : GraphStep(AnalystNode(a))
    \/ GraphStep(InvestmentNode)
    \/ GraphStep(EndStep)
    \/ WorkerResult
    \/ WorkerSweep
    \/ WorkerStop
    \/ RenderFrame
    \/ CompletionFrame
    \/ Join
    \/ RunEnd

SpecPlay == InitPlay /\ [][NextPlay]_vars

\* _build_report and _parse_markdown_report applied to every input
InitReport ==
    /\ MdIdle /\ ToolIdle /\ SvgIdle /\ OutlookIdle /\ DocIdle /\ OrchInit /\ PlayInit /\ main = "direct"
    /\ br_pc = "input"
    /\ br_report = None
    /\ br_parsed = NoParse
    /\ \E t \in ReportTickers, ta \in Texts, fa \in Texts, na \in Texts,
          ma \in Texts, ao \in Texts :
          br_result = [ticker |-> t, technical_analysis |-> ta,
                       fundamental_analysis |-> fa, news_analysis |-> na,
                       macro_analysis |-> ma, ai_outlook |-> ao]

NextReport == DoBuildReport \/ DoParseReport

SpecReport == InitReport /\ [][NextReport]_vars


-----------------------------------------------------------------------------
(* Properties of the report aggregation, checked under SpecReport *)

\* the optional sections in the order of the report: heading and input key
SectionOrder ==
    <<[heading |-> H_TECH,  key |-> "technical_analysis"],
      [heading |-> H_FUND,  key |-> "fundamental_analysis"],
      [heading |-> H_NEWS,  key |-> "news_analysis"],
      [heading |-> H_MACRO, key |-> "macro_analysis"],
      [heading |-> H_AI,    key |-> "ai_outlook"]>>

\* a value is present when it is neither None nor the empty string
IsPresent(result, i) ==
    /\ result[SectionOrder[i].key] # None
    /\ result[SectionOrder[i].key] # <<"">>

RECURSIVE LinesBefore(_, _)
\* the lines the present sections before section i take: a heading line and
\* the lines of the body each
LinesBefore(result, i) ==
    IF i = 1 THEN 0
    ELSE LinesBefore(result, i - 1)
           + (IF IsPresent(result, i - 1)
              THEN 1 + Len(result[SectionOrder[i - 1].key]) ELSE 0)

\* C1: for every combination of present and absent (None or empty) values of
\* the four analyses and the outlook, the report is the title line, a blank
\* line, then for exactly the present sections, in the order Technical,
\* Fundamental, News & Sentiment, Macro, AI Investment Outlook, one heading
\* line followed by the body, then a blank line, the separator and the footer;
\* no other line is emitted, so each heading is emitted exactly once.
C1_HeadingsOfPresentSectionsInOrder ==
    br_pc \in {"built", "parsed"} =>
        LET r    == br_result
            body == LinesBefore(r, 6)
            mid  == IF body = 0 THEN 1 ELSE body
        IN  /\ Len(br_report) = 2 + mid + 4
            /\ br_report[1] = "# Stock Analysis Report: " \o r.ticker
            /\ br_report[2] = ""
            /\ \A i \in 1..5 :
                  IsPresent(r, i) =>
                     /\ br_report[3 + LinesBefore(r, i)] = SectionOrder[i].heading
                     /\ SubSeq(br_report, 4 + LinesBefore(r, i),
                               3 + LinesBefore(r, i) + Len(r[SectionOrder[i].key]))
                          = r[SectionOrder[i].key]
            /\ body = 0 => br_report[3] = ""
            /\ SubSeq(br_report, 3 + mid, 6 + mid)
                  = <<"", "---", "*Generated by Multi-Agent Stock Analyzer*", "">>

\* C1, witness: a report built from an absent (None) analysis, an empty one
\* and three present ones
C1_Witness ==
    /\ br_pc = "built"
    /\ br_result.technical_analysis = None
    /\ br_result.fundamental_analysis = <<"">>
    /\ br_result.news_analysis = Prose
    /\ br_result.macro_analysis = SubHeaded
    /\ br_result.ai_outlook = Prose
    /\ br_report[3] = H_NEWS /\ br_report[5] = H_MACRO /\ br_report[9] = H_AI

\* the titles of the parsed sections
ParsedTitles == [i \in 1..Len(br_parsed.sections) |-> br_parsed.sections[i][1]]

RECURSIVE PresentTitles(_, _)
\* the titles of the present analyst sections (the first four of
\* SectionOrder) from section i on, in input order
PresentTitles(result, i) ==
    IF i > 4 THEN <<>>
    ELSE (IF IsPresent(result, i)
          THEN <<SubSeq(SectionOrder[i].heading, 4, Len(SectionOrder[i].heading))>>
          ELSE <<>>) \o PresentTitles(result, i + 1)

\* a body none of whose lines is a `## ` heading
PlainBody(t) == \A k \in 1..Len(t) : ~StartsWith(t[k], "## ")

\* C6, as claimed: for a report built from inputs in which exactly k of the
\* four analyst sections are present, the parsed section list has length k and
\* lists those sections in input order.  Stated for the plainest inputs: no
\* outlook, and bodies without headings of their own.
C6_ParsedSectionsArePresentSections ==
    (/\ br_pc = "parsed"
     /\ ~IsPresent(br_result, 5)
     /\ \A i \in 1..4 : PlainBody(br_result[SectionOrder[i].key]))
        => ParsedTitles = PresentTitles(br_result, 1)

-----------------------------------------------------------------------------
(* Properties of the orchestrator, checked under Spec *)

\* the heading _build_report gives the section of an analyst
HeadingOf(a) ==
    CASE a = TECHNICAL_ANALYST   -> "## Technical Analysis"
      [] a = FUNDAMENTAL_ANALYST -> "## Fundamental Analysis"
      [] a = NEWS_ANALYST        -> "## News & Sentiment Analysis"
      [] a = MACRO_ANALYST       -> "## Macro Analysis"

HasLine(text, line) == \E k \in 1..Len(text) : text[k] = line

\* the ticker was identified by the router
Identified(t) == LowerStr(Strip(t)) \notin {"", "unknown"}

\* the router enabled analyst a and its agent returned a non-empty text
Produced(a) == state[RunKey(a)] /\ state[OutKey(a)] # None /\ state[OutKey(a)] # <<"">>

\* the texts the final state hands to _build_report
Bodies == {state[OutKey(a)] : a \in Analysts} \cup {state.ai_outlook}

\* C2, as claimed: for every router decision with an identified ticker, the
\* report returned by invoke has the heading of an analyst section if and only
\* if the router enabled that analyst and its agent returned non-empty text.
C2_HeadingIffEnabled ==
    (inv_pc = "returned" /\ Identified(state.ticker)) =>
        \A a \in Analysts :
            HasLine(inv_result.final_report, HeadingOf(a)) <=> Produced(a)

\* C2, amended: the same, for each analyst whose heading is not itself a line
\* of one of the texts the agents and the synthesizer returned; in particular,
\* with ticker AAPL and only the technical flag set (and such texts), the report
\* has the Technical Analysis heading and neither the Fundamental Analysis nor
\* the News & Sentiment Analysis heading.
C2_HeadingIffEnabledUnlessEchoed ==
    (inv_pc = "returned" /\ Identified(state.ticker)) =>
        \A a \in Analysts :
            (\A t \in Bodies : ~HasLine(t, HeadingOf(a))) =>
                (HasLine(inv_result.final_report, HeadingOf(a)) <=> Produced(a))

\* C2, witness: AAPL with only the technical flag set and a plain technical text
C2_Witness ==
    /\ inv_pc = "returned"
    /\ state.ticker = "AAPL"
    /\ state.run_technical /\ ~state.run_fundamental /\ ~state.run_news /\ ~state.run_macro
    /\ state.technical_analysis = Prose
    /\ HasLine(inv_result.final_report, "## Technical Analysis")
    /\ ~HasLine(inv_result.final_report, "## Fundamental Analysis")
    /\ ~HasLine(inv_result.final_report, "## News & Sentiment Analysis")

PromptPrefixes == {"Analyze ", "Analyze news for ", "Assess macro conditions for "}

\* C3: an analyst node whose run flag is false returns None for its own key
\* and neither creates nor invokes its agent; one whose flag is true has invoked
\* its agent exactly once, for the ticker of the state, and returns the content
\* of the last message of the agent's answer.
C3_AnalystNodeSkipsOrInvokesOnce ==
    \A a \in Analysts :
        node[a] = "done" =>
            /\ DOMAIN updates[a] = {OutKey(a)}
            /\ IF state[RunKey(a)]
               THEN /\ Len(agent_calls[a]) = 1
                    /\ \E pre \in PromptPrefixes :
                          agent_calls[a][1].prompt = pre \o state.ticker
                    /\ updates[a][OutKey(a)]
                          = agent_calls[a][1].messages[Len(agent_calls[a][1].messages)]
               ELSE /\ updates[a][OutKey(a)] = None
                    /\ ~agents[a]
                    /\ agent_calls[a] = <<>>

\* C3, witness: in one superstep a skipped node and a node that returned the
\* last of two messages
C3_Witness ==
    /\ node[TECHNICAL_ANALYST] = "done" /\ state.run_technical
    /\ agent_calls[TECHNICAL_ANALYST][1].messages = <<Prose, Echo>>
    /\ updates[TECHNICAL_ANALYST].technical_analysis = Echo
    /\ node[NEWS_ANALYST] = "done" /\ ~state.run_news
    /\ updates[NEWS_ANALYST].news_analysis = None

\* C4: the router node has completed before any analyst node starts, every
\* analyst node (run or skipped) has completed before the investment-analyst
\* node starts, no node runs twice, and in an invoke that returns the router
\* node and the investment-analyst node have each run exactly once.
C4_FanOutFanInOrder ==
    /\ \A a \in Analysts : runs[a] > 0 => returns[ROUTER] = 1
    /\ runs[INVESTMENT_ANALYST] > 0 => \A a \in Analysts : returns[a] = 1
    /\ \A n \in AgentEnum : runs[n] <= 1
    /\ inv_pc = "returned" =>
          /\ runs[ROUTER] = 1 /\ returns[ROUTER] = 1
          /\ runs[INVESTMENT_ANALYST] = 1 /\ returns[INVESTMENT_ANALYST] = 1

\* C4, witness: the investment analyst runs after two skipped and two run
\* analysts
C4_Witness ==
    /\ node[INVESTMENT_ANALYST] = "running"
    /\ state.run_technical /\ state.run_macro
    /\ ~state.run_fundamental /\ ~state.run_news
    /\ \A a \in Analysts : returns[a] = 1

\* C5: when the ticker of the state, trimmed, is empty or equals UNKNOWN in
\* any case, investment_analyst_node returns the canned outlook
\* (Recommendation N/A, Low Confidence, Risk HIGH) without a call of
\* generate_investment_outlook and without raising; for every other ticker it
\* has called generate_investment_outlook exactly once and returns its text.
C5_UnknownTickerShortCircuits ==
    /\ node[INVESTMENT_ANALYST] = "done" =>
          IF ~Identified(state.ticker)
          THEN /\ outlook_calls = <<>>
               /\ updates[INVESTMENT_ANALYST].ai_outlook[1]
                     = "**Recommendation:** N/A (Low Confidence)"
               /\ HasLine(updates[INVESTMENT_ANALYST].ai_outlook,
                          "**Risk Assessment:** HIGH")
               /\ ParseInvestmentOutlook(updates[INVESTMENT_ANALYST].ai_outlook)
                     .recommendation = "N/A"
          ELSE /\ Len(outlook_calls) = 1
               /\ outlook_calls[1].ticker = state.ticker
               /\ updates[INVESTMENT_ANALYST].ai_outlook = outlook_calls[1].text
    /\ node[INVESTMENT_ANALYST] = "failed" =>
          Identified(state.ticker) /\ Len(outlook_calls) = 1

\* C5, witness: the canned outlook returned for the ticker " unknown "
C5_Witness ==
    /\ node[INVESTMENT_ANALYST] = "done"
    /\ state.ticker = " unknown "
    /\ outlook_calls = <<>>
    /\ updates[INVESTMENT_ANALYST].ai_outlook = CannedOutlook

\* what the collaborators answered: the result invoke builds without a callback
AnswerOf(a) ==
    IF state[RunKey(a)] THEN Last(agent_calls[a][1].messages) ELSE None

AnsweredResult ==
    [ticker |-> state.ticker,
     technical_analysis   |-> AnswerOf(TECHNICAL_ANALYST),
     fundamental_analysis |-> AnswerOf(FUNDAMENTAL_ANALYST),
     news_analysis        |-> AnswerOf(NEWS_ANALYST),
     macro_analysis       |-> AnswerOf(MACRO_ANALYST),
     ai_outlook |-> IF outlook_calls = <<>> THEN CannedOutlook ELSE outlook_calls[1].text]

\* C10: whatever subset of its calls a status callback raises an Exception on,
\* no exception of the callback leaves a node; an invoke that returns gives
\* the report, the summary and the ticker that the answers of the router, the
\* agents and the synthesizer determine, as it does without a callback; and
\* every notification was attempted: RUNNING, then DONE or SKIPPED, for each of
\* the six agents.
C10_CallbackErrorsAreSwallowed ==
    /\ error # "CallbackError"
    /\ \A n \in AgentEnum : node[n] = "failed" => error = "CollaboratorError"
    /\ inv_pc = "returned" =>
          /\ inv_result.final_report = BuildReport(AnsweredResult)
          /\ inv_result.summary
                = Summary(IF AnsweredResult.ai_outlook = <<"">>
                          THEN <<"">> ELSE AnsweredResult.ai_outlook)
          /\ inv_result.ticker = state.ticker
          /\ \/ \A n \in AgentEnum : notified[n] = <<>>
             \/ \A n \in AgentEnum :
                   /\ Len(notified[n]) = 2
                   /\ notified[n][1] = RUNNING
                   /\ notified[n][2] \in {DONE, SKIPPED}

\* C10, witness: invoke has returned although the callback raised
C10_Witness ==
    /\ inv_pc = "returned"
    /\ cb_raised
    /\ \A n \in AgentEnum : Len(notified[n]) = 2

-----------------------------------------------------------------------------
(* Properties of PlayAnimation, checked under SpecPlay *)

\* C7: if the analysis function raises in the worker thread, run raises that
\* same exception on the calling thread, after the render loop has exited, and
\* does not return a value.
C7_AnalysisErrorIsReraised ==
    (inv_pc = "raised" /\ main \in {"returned", "raised"}) =>
        /\ main = "raised"
        /\ run_out.kind = "raise"
        /\ run_out.error = error

\* C8: whenever run returns normally from an animation that started, the
\* analysis function has finished and the value returned is the value the
\* analysis function returned, also when the render loop stopped because a
\* drawing step raised and then waited on the bounded join.
C8_RunReturnsAnalysisResult ==
    (main = "returned" /\ ~failed) =>
        /\ worker = "finished"
        /\ inv_pc = "returned"
        /\ run_out.value = inv_result

\* the position of a status on WAIT -> RUNNING -> {DONE, SKIPPED}
Rank(st) ==
    CASE st = WAIT -> 0
      [] st = RUNNING -> 1
      [] st \in {DONE, SKIPPED} -> 2

\* C9: during one run, the status entry of each agent only moves forward
\* along WAIT -> RUNNING -> {DONE, SKIPPED}: no entry regresses, and an entry
\* that is DONE or SKIPPED never changes again, whether it is written by a
\* node's callback or by the worker's final sweep.
C9_StatusIsMonotonic ==
    [][\A n \in AgentEnum :
          /\ Rank(status'[n]) >= Rank(status[n])
          /\ status[n] \in {DONE, SKIPPED} => status'[n] = status[n]]_vars

\* C9, witness: the sweep has passed over a SKIPPED entry, and has marked
\* DONE an entry whose node never reported DONE
C9_Witness ==
    /\ worker = "finished"
    /\ \E n \in AgentEnum : status[n] = SKIPPED
    /\ \E n \in AgentEnum : status[n] = DONE /\ notified[n] = <<RUNNING>>
    /\ \E n \in AgentEnum : status[n] = DONE /\ notified[n] = <<>>

-----------------------------------------------------------------------------
(* The data-fetch collaborators: tools/yfinance_tools.py, search_tools.py,
   macro_tools.py.  An optional value is None or a one-element sequence; a
   dict is a function from its keys. *)

Some(v) == <<v>>

EmptyDict == [k \in {} |-> None]

\* d.get(k)
Get(d, k) == IF k \in DOMAIN d THEN d[k] ELSE None

\* _first_non_null(*values)
FirstNonNull(values) ==
    IF \E i \in 1..Len(values) : values[i] # None
    THEN values[CHOOSE i \in 1..Len(values) :
                    /\ values[i] # None
                    /\ \A j \in 1..(i - 1) : values[j] = None]
    ELSE None

\* a or b, for optional values that are truthy whenever they are not None
Or(a, b) == IF a # None THEN a ELSE b

\* what stock.info / stock.history can do: answer with data, answer with
\* nothing (an unknown symbol), or raise (network failure, rate limit)
YfOutcomes == {"data", "empty", "raise"}

\* stock.fast_info
FastOutcomes == {"data", "empty"}

\* what a web search can do
SearchOutcomes == {"results", "nothing", "raise"}

InfoKeys ==
    {"currentPrice", "regularMarketPrice", "fiftyTwoWeekHigh", "fiftyTwoWeekLow",
     "fiftyDayAverage", "twoHundredDayAverage", "volume", "averageVolume",
     "regularMarketChangePercent", "marketCap", "trailingPE", "forwardPE",
     "trailingEps", "totalRevenue", "profitMargins", "debtToEquity",
     "dividendYield", "sector", "industry"}

FastKeys ==
    {"last_price", "previous_close", "year_high", "year_low", "fifty_day_average",
     "two_hundred_day_average", "last_volume", "three_month_average_volume",
     "year_change"}

\* the dict stock.info evaluates to when it does not raise
Info(outcome) ==
    IF outcome = "data" THEN [k \in InfoKeys |-> Some("info." \o k)] ELSE EmptyDict

\* getattr(stock, "fast_info", {}) or {}
FastInfo(outcome) ==
    IF outcome = "data" THEN [k \in FastKeys |-> Some("fast." \o k)] ELSE EmptyDict

Returned(value) == [kind |-> "return", value |-> value]

Raised(exc) == [kind |-> "raise", error |-> exc]

\* get_technical_data(ticker): no try / except around stock.info
GetTechnicalData(yf, fast) ==
    IF yf = "raise" THEN Raised("Exception")
    ELSE LET info == Info(yf)
             fast_info == FastInfo(fast)
         IN Returned(
              [current_price |->
                   FirstNonNull(<<Get(fast_info, "last_price"),
                                  Get(fast_info, "previous_close"),
                                  IF "currentPrice" \in DOMAIN info
                                  THEN info["currentPrice"]
                                  ELSE Get(info, "regularMarketPrice")>>),
               fifty_two_week_high |->
                   FirstNonNull(<<Get(fast_info, "year_high"),
                                  Get(info, "fiftyTwoWeekHigh")>>),
               fifty_two_week_low |->
                   FirstNonNull(<<Get(fast_info, "year_low"),
                                  Get(info, "fiftyTwoWeekLow")>>),
               fifty_day_ma |->
                   FirstNonNull(<<Get(fast_info, "fifty_day_average"),
                                  Get(info, "fiftyDayAverage")>>),
               two_hundred_day_ma |->
                   FirstNonNull(<<Get(fast_info, "two_hundred_day_average"),
                                  Get(info, "twoHundredDayAverage")>>),
               volume |->
                   FirstNonNull(<<Get(fast_info, "last_volume"), Get(info, "volume")>>),
               avg_volume |->
                   FirstNonNull(<<Get(fast_info, "three_month_average_volume"),
                                  Get(info, "averageVolume")>>),
               price_change_pct |->
                   FirstNonNull(<<Get(fast_info, "year_change"),
                                  Get(info, "regularMarketChangePercent")>>)])

\* get_fundamental_data(ticker): no try / except around stock.info
GetFundamentalData(yf) ==
    IF yf = "raise" THEN Raised("Exception")
    ELSE LET info == Info(yf)
         IN Returned(
              [market_cap |-> Get(info, "marketCap"),
               pe_ratio |-> Get(info, "trailingPE"),
               forward_pe |-> Get(info, "forwardPE"),
               eps |-> Get(info, "trailingEps"),
               revenue |-> Get(info, "totalRevenue"),
               profit_margin |-> Get(info, "profitMargins"),
               debt_to_equity |-> Get(info, "debtToEquity"),
               dividend_yield |-> Get(info, "dividendYield"),
               sector |-> Get(info, "sector"),
               industry |-> Get(info, "industry")])

\* the rows of stock.history(period=period)
HistoryRows(yf) ==
    IF yf = "data"
    THEN <<[date |-> "2026-01-02", open |-> 100, high |-> 103, low |-> 99,
            close |-> 102, volume |-> 5000],
           [date |-> "2026-01-05", open |-> 102, high |-> 104, low |-> 101,
            close |-> 101, volume |-> 4000]>>
    ELSE <<>>

\* get_price_history(ticker, period): no try / except around stock.history
GetPriceHistory(ticker, period, yf) ==
    IF yf = "raise" THEN Raised("Exception")
    ELSE Returned([ticker |-> ticker, period |-> period,
                   data |-> [i \in 1..Len(HistoryRows(yf)) |-> HistoryRows(yf)[i]]])

\* the (title, snippet) pairs found in a search answer; a pair may lack either
SearchHits(web) ==
    IF web = "results"
    THEN <<[title |-> "Shares rise", body |-> "Stock gains on earnings"],
           [title |-> "", body |-> "Analysts split"],
           [title |-> "Outlook cut", body |-> ""]>>
    ELSE <<>>

\* [x for x in xs if x], kept in order
NonEmpty(xs) == SelectSeq(xs, LAMBDA x : x # "")

Headlines(hits) == NonEmpty([i \in 1..Len(hits) |-> hits[i].title])

Snippets(hits) == NonEmpty([i \in 1..Len(hits) |-> hits[i].body])

\* search_stock_news(ticker): no try / except around search.invoke
SearchStockNews(ticker, web) ==
    IF web = "raise" THEN Raised("Exception")
    ELSE Returned([headlines |-> Headlines(SearchHits(web)),
                   snippets |-> Snippets(SearchHits(web)),
                   search_query |-> ticker \o " stock news latest"])

GeoQuery == "geopolitical risk market impact news today"

\* search_geopolitical_news(): `except Exception` returns the empty result
SearchGeopoliticalNews(web) ==
    IF web = "raise"
    THEN Returned([headlines |-> <<>>, snippets |-> <<>>, search_query |-> GeoQuery])
    ELSE Returned([headlines |-> Headlines(SearchHits(web)),
                   snippets |-> Snippets(SearchHits(web)),
                   search_query |-> GeoQuery])

\* as FearGreedLabel, with each boundary value in the class above it
FearGreedLabelShifted(value) ==
    IF value = None THEN None
    ELSE IF value[1] < 24 THEN Some("Extreme Fear")
    ELSE IF value[1] < 44 THEN Some("Fear")
    ELSE IF value[1] < 55 THEN Some("Neutral")
    ELSE IF value[1] < 75 THEN Some("Greed")
    ELSE Some("Extreme Greed")

\* _get_fear_greed_label(value), for a value that is None or Some(integer)
FearGreedLabel(value) ==
    IF value = None THEN None
    ELSE IF value[1] <= 24 THEN Some("Extreme Fear")
    ELSE IF value[1] <= 44 THEN Some("Fear")
    ELSE IF value[1] <= 55 THEN Some("Neutral")
    ELSE IF value[1] <= 75 THEN Some("Greed")
    ELSE Some("Extreme Greed")

\* int(round(float(score))) for a score given in tenths: round half to even
RoundTenths(t) ==
    LET q == t \div 10
        r == t % 10
    IN IF r < 5 THEN q
       ELSE IF r > 5 THEN q + 1
       ELSE IF q % 2 = 0 THEN q ELSE q + 1

\* the scores the endpoint is asked to have, in tenths
ScoreTenths == {245, 255, 447, 760}

\* what the request to the Fear & Greed endpoint can do
FearGreedReplies ==
    {[kind |-> k] : k \in {"timeout", "http_error", "not_json", "not_object",
                           "no_score", "bad_score"}}
        \cup {[kind |-> "score", tenths |-> t, rating |-> r] :
                 t \in ScoreTenths, r \in {"", "greed"}}

NoFearGreed == [value |-> None, label |-> None]

\* get_fear_greed_index(): requests.RequestException and KeyError, ValueError,
\* TypeError are caught; any other exception is not
GetFearGreedIndex(reply) ==
    CASE reply.kind \in {"timeout", "http_error", "not_json"} -> Returned(NoFearGreed)
      [] reply.kind = "not_object" -> Raised("AttributeError")
      [] reply.kind = "no_score" -> Returned(NoFearGreed)
      [] reply.kind = "bad_score" -> Returned(NoFearGreed)
      [] reply.kind = "score" ->
            LET value == RoundTenths(reply.tenths)
            IN Returned([value |-> Some(value),
                         label |-> IF reply.rating # "" THEN Some(reply.rating)
                                   ELSE FearGreedLabel(Some(value))])

\* SECTOR_ETF_MAP.get(sector) if sector else None
SectorEtf(sector) ==
    CASE sector = Some("Technology") -> Some("XLK")
      [] sector = Some("Energy") -> Some("XLE")
      [] OTHER -> None

Sectors == {None, Some("Technology"), Some("Shipping")}

\* _get_ticker_data(symbol): `except Exception: return {}`
GetTickerData(yf, fast) ==
    IF yf = "raise" THEN EmptyDict
    ELSE LET info == Info(yf)
             fast_info == FastInfo(fast)
         IN [k \in {"price", "ma_50", "ma_200", "change_pct"} |->
               CASE k = "price" ->
                       Or(Get(fast_info, "last_price"),
                          Or(Get(fast_info, "previous_close"),
                             Get(info, "regularMarketPrice")))
                 [] k = "ma_50" ->
                       Or(Get(fast_info, "fifty_day_average"), Get(info, "fiftyDayAverage"))
                 [] k = "ma_200" ->
                       Or(Get(fast_info, "two_hundred_day_average"),
                          Get(info, "twoHundredDayAverage"))
                 [] k = "change_pct" -> Get(info, "regularMarketChangePercent")]

\* get_market_indices(sector)
GetMarketIndices(sector, spy, vix, etf, fast, reply) ==
    LET spy_data == GetTickerData(spy, fast)
        vix_data == GetTickerData(vix, fast)
        sector_etf == SectorEtf(sector)
        sector_data == IF sector_etf # None THEN GetTickerData(etf, fast) ELSE EmptyDict
        fear_greed == GetFearGreedIndex(reply)
    IN IF fear_greed.kind = "raise" THEN fear_greed
       ELSE Returned(
              [spy_price |-> Get(spy_data, "price"),
               spy_50d_ma |-> Get(spy_data, "ma_50"),
               spy_200d_ma |-> Get(spy_data, "ma_200"),
               spy_change_pct |-> Get(spy_data, "change_pct"),
               vix_level |-> Get(vix_data, "price"),
               vix_change_pct |-> Get(vix_data, "change_pct"),
               sector_etf |-> sector_etf,
               sector_price |-> Get(sector_data, "price"),
               sector_50d_ma |-> Get(sector_data, "ma_50"),
               sector_change_pct |-> Get(sector_data, "change_pct"),
               fear_greed_value |-> fear_greed.value.value,
               fear_greed_label |-> fear_greed.value.label])

\* the largest value _get_fear_greed_label is tried on
MaxLabelValue == 102

\* the values _get_fear_greed_label is tried on
LabelValues == {None} \cup {Some(v) : v \in -3..MaxLabelValue}

\* a call of a tool, with what its external calls will do
ToolCalls ==
    {[tool |-> "_get_fear_greed_label", value |-> v] : v \in LabelValues} \cup
    {[tool |-> "get_technical_data", yf |-> y, fast |-> f] :
        y \in YfOutcomes, f \in FastOutcomes}
    \cup {[tool |-> t, yf |-> y] :
        t \in {"get_fundamental_data", "get_price_history"}, y \in YfOutcomes}
    \cup {[tool |-> t, web |-> w] :
        t \in {"search_stock_news", "search_geopolitical_news"}, w \in SearchOutcomes}
    \cup {[tool |-> "get_fear_greed_index", reply |-> r] : r \in FearGreedReplies}
    \cup {[tool |-> "get_market_indices", sector |-> s, spy |-> a, vix |-> b,
           etf |-> c, fast |-> f, reply |-> r] :
        s \in Sectors, a \in YfOutcomes, b \in YfOutcomes, c \in YfOutcomes,
        f \in FastOutcomes, r \in FearGreedReplies}

ToolTicker == "AAPL"

\* what the called tool does
ToolResult(c) ==
    CASE c.tool = "_get_fear_greed_label" -> Returned(FearGreedLabel(c.value))
      [] c.tool = "get_technical_data" -> GetTechnicalData(c.yf, c.fast)
      [] c.tool = "get_fundamental_data" -> GetFundamentalData(c.yf)
      [] c.tool = "get_price_history" -> GetPriceHistory(ToolTicker, "6mo", c.yf)
      [] c.tool = "search_stock_news" -> SearchStockNews(ToolTicker, c.web)
      [] c.tool = "search_geopolitical_news" -> SearchGeopoliticalNews(c.web)
      [] c.tool = "get_fear_greed_index" -> GetFearGreedIndex(c.reply)
      [] c.tool = "get_market_indices" ->
            GetMarketIndices(c.sector, c.spy, c.vix, c.etf, c.fast, c.reply)

\* a caller calls a tool
ToolCall ==
    /\ tool_pc = "idle"
    /\ \E c \in ToolCalls : tool_call' = c
    /\ tool_pc' = "called"
    /\ UNCHANGED <<tool_out, br_vars, md_vars, svg_vars, io_vars, doc_vars, orch_vars, play_vars>>

\* the tool returns to its caller, or an exception leaves it
ToolEnd ==
    /\ tool_pc = "called"
    /\ tool_out' = ToolResult(tool_call)
    /\ tool_pc' = IF ToolResult(tool_call).kind = "raise" THEN "raised" ELSE "returned"
    /\ UNCHANGED <<tool_call, br_vars, md_vars, svg_vars, io_vars, doc_vars, orch_vars, play_vars>>

InitTools ==
    /\ BrIdle /\ MdIdle /\ SvgIdle /\ OutlookIdle /\ DocIdle /\ OrchInit /\ PlayInit /\ main = "direct"
    /\ tool_pc = "idle"
    /\ tool_call = [tool |-> "None"]
    /\ tool_out = [kind |-> "None"]

NextTools == ToolCall \/ ToolEnd

SpecTools == InitTools /\ [][NextTools]_vars

\* the external call of the tool failed: it raised, timed out or answered
\* with an error status
ExternalCallFailed(c) ==
    CASE c.tool \in {"get_technical_data", "get_fundamental_data", "get_price_history"} ->
            c.yf = "raise"
      [] c.tool \in {"search_stock_news", "search_geopolitical_news"} -> c.web = "raise"
      [] c.tool = "get_fear_greed_index" -> c.reply.kind \in {"timeout", "http_error"}
      [] c.tool = "get_market_indices" ->
            /\ c.spy = "raise" /\ c.vix = "raise" /\ c.etf = "raise"
            /\ c.reply.kind \in {"timeout", "http_error"}
      [] OTHER -> FALSE

\* every field of the record is None or an empty list, the query, ticker and
\* period echoed from the arguments aside
NullOrEmpty(value) ==
    \A k \in DOMAIN value \ {"search_query", "ticker", "period", "sector_etf"} :
        value[k] = None

\* C11: for each of the seven data-fetch collaborators, when the underlying
\* external call fails, the tool returns a result whose fields are null or
\* empty, and no exception reaches the caller.
C11_ToolsDegradeOnFailure ==
    (tool_pc \in {"returned", "raised"} /\ ExternalCallFailed(tool_call)) =>
        /\ tool_pc = "returned"
        /\ tool_out.kind = "return"
        /\ NullOrEmpty(tool_out.value)

-----------------------------------------------------------------------------
(* PlayAnimation.failed, checked under SpecPlay *)

\* C12: failed is true after run only if the animation failed to start:
\* whenever run has returned with failed true, the analysis function was not
\* started by that run, so the plain-output fallback of _run_animated does
\* not repeat a pipeline that already ran inside the animation.
C12_FailedMeansAnalysisNotStarted ==
    (main = "returned" /\ failed) =>
        /\ worker = "unstarted"
        /\ inv_pc = "idle"
        /\ \A n \in AgentEnum : runs[n] = 0

-----------------------------------------------------------------------------
(* _parse_markdown_report applied to arbitrary text: SpecParse *)

\* the longest input, in lines
MaxParseLines == 4

\* the lines an input is made of: titles, recognized headings (one with
\* trailing blanks), an unrecognized heading, prose, an empty line, the
\* separator, the footer, an indented rule and a top-level heading
ParseAlphabet ==
    {"# Stock Analysis Report: AAPL",
     "# Stock Analysis Report:",
     "no title here",
     "## Technical Analysis",
     "## AI Investment Outlook  ",
     "## Key Levels",
     "",
     "---",
     "*Generated by Multi-Agent Stock Analyzer*",
     "  --- indented rule",
     "# Notes"}

\* markdown_report.split("\n") of every text of at most MaxParseLines lines
ParseInputs == UNION {[1..n -> ParseAlphabet] : n \in 1..MaxParseLines}

\* save_html_report / generate_html_report hand a text to _parse_markdown_report
InitParse ==
    /\ MdIdle /\ ToolIdle /\ SvgIdle /\ OutlookIdle /\ DocIdle /\ OrchInit /\ PlayInit /\ main = "direct"
    /\ br_pc = "built"
    /\ br_result = NoResult
    /\ br_report \in ParseInputs
    /\ br_parsed = NoParse

NextParse == DoParseReport

SpecParse == InitParse /\ [][NextParse]_vars

\* filename = f"{ticker}_analysis_{timestamp}.html"
ReportFileName(ticker, timestamp) == ticker \o "_analysis_" \o timestamp \o ".html"

\* the closed set of recognized headings
MainSections ==
    {"Technical Analysis", "Fundamental Analysis",
     "News & Sentiment Analysis", "AI Investment Outlook"}

\* line i of the input is a '## X' line; X is its title
IsH2(lines, i) == StartsWith(lines[i], "## ")

H2Title(lines, i) == Strip(SubSeq(lines[i], 4, Len(lines[i])))

Recognized(lines, i) == IsH2(lines, i) /\ H2Title(lines, i) \in MainSections

\* the positions of the recognized headings
HeadingRows(lines) == {i \in 1..Len(lines) : Recognized(lines, i)}

\* the position of the k-th recognized heading, and of the one after it
HeadingRow(lines, k) ==
    CHOOSE i \in HeadingRows(lines) :
        Cardinality({j \in HeadingRows(lines) : j <= i}) = k

NextHeadingRow(lines, k) ==
    IF k < Cardinality(HeadingRows(lines)) THEN HeadingRow(lines, k + 1)
    ELSE Len(lines) + 1

\* how many lines of a body equal `line`
CountLine(body, line) == Cardinality({m \in 1..Len(body) : body[m] = line})

\* C13: every section title returned by _parse_markdown_report is one of the
\* recognized headings; an unrecognized '## X' line inside a recognized
\* section starts no section and is kept in that section's body as '### X';
\* one before the first recognized section is discarded.
C13_UnrecognizedHeadingsAreDemoted ==
    br_pc = "parsed" =>
        LET lines == br_report
            secs  == br_parsed.sections
        IN  /\ \A k \in 1..Len(secs) : secs[k][1] \in MainSections
            /\ Len(secs) = Cardinality(HeadingRows(lines))
            /\ \A k \in 1..Len(secs) :
                  /\ secs[k][1] = H2Title(lines, HeadingRow(lines, k))
                  /\ \A x \in {"Key Levels"} :
                        CountLine(secs[k][2], "### " \o x)
                          = Cardinality(
                              {i \in (HeadingRow(lines, k) + 1)
                                      ..(NextHeadingRow(lines, k) - 1) :
                                  IsH2(lines, i) /\ H2Title(lines, i) = x})

\* C13, witness: an unrecognized heading before the first section and one
\* inside it
C13_Witness ==
    /\ br_pc = "parsed"
    /\ br_report = <<"## Key Levels", "## Technical Analysis", "## Key Levels",
                     "no title here">>
    /\ br_parsed.sections
          = <<<<"Technical Analysis", <<"### Key Levels", "no title here">>>>>>

\* begins with '# ', '---' or '*Generated'
DroppedPrefix(line) ==
    \/ StartsWith(line, "# ")
    \/ StartsWith(line, "---")
    \/ StartsWith(line, "*Generated")

\* the lines, stripped, that are not blank
NonBlank(ls) == SelectSeq([m \in 1..Len(ls) |-> Strip(ls[m])], LAMBDA l : l # "")

\* the input lines of section k that the claim says are kept, in input
\* order, an unrecognized heading in its demoted form
KeptLines(lines, k) ==
    LET lo == HeadingRow(lines, k) + 1
        hi == NextHeadingRow(lines, k) - 1
        row(m) == lines[lo + m - 1]
    IN  SelectSeq([m \in 1..(hi - lo + 1) |->
                      IF StartsWith(row(m), "## ")
                      THEN "### " \o Strip(SubSeq(row(m), 4, Len(row(m))))
                      ELSE row(m)],
                  LAMBDA l : ~DroppedPrefix(l))

\* every line beginning with '# ', '---' or '*Generated' is dropped and every
\* other line of a section is kept, in input order
DroppedAndKept ==
    \A k \in 1..Len(br_parsed.sections) :
        NonBlank(br_parsed.sections[k][2]) = NonBlank(KeptLines(br_report, k))

\* C14, as claimed: no section body returned by _parse_markdown_report has a
\* line that begins with '# ', '---' or '*Generated'; such lines are dropped
\* wherever they occur and every other non-heading line of a recognized
\* section is kept, in input order.
C14_NoBodyLineHasDroppedPrefix ==
    br_pc = "parsed" =>
        /\ DroppedAndKept
        /\ \A k \in 1..Len(br_parsed.sections) :
              \A m \in 1..Len(br_parsed.sections[k][2]) :
                  ~DroppedPrefix(br_parsed.sections[k][2][m])

\* C14, amended: every input line that begins with '# ', '---' or
\* '*Generated' is dropped wherever it occurs and every other non-heading
\* line of a recognized section is kept, in input order; no line of a body
\* after its first begins with one of the three prefixes (the first may, when
\* the input line was indented and the final strip removed the indentation).
C14_PrefixedInputLinesAreDropped ==
    br_pc = "parsed" =>
        /\ DroppedAndKept
        /\ \A k \in 1..Len(br_parsed.sections) :
              \A m \in 2..Len(br_parsed.sections[k][2]) :
                  ~DroppedPrefix(br_parsed.sections[k][2][m])

\* C14, witness: a separator dropped between two kept lines of a section
C14_Witness ==
    /\ br_pc = "parsed"
    /\ br_report = <<"## Technical Analysis", "no title here", "---", "no title here">>
    /\ br_parsed.sections
          = <<<<"Technical Analysis", <<"no title here", "no title here">>>>>>

\* C15: a recognized heading immediately followed by another recognized
\* heading or by the end of the input yields a section with the empty string
\* as body; the number of sections returned equals the number of
\* recognized-heading lines of the input.
C15_EmptySectionsAreEmitted ==
    br_pc = "parsed" =>
        LET lines == br_report
            secs  == br_parsed.sections
        IN  /\ Len(secs) = Cardinality(HeadingRows(lines))
            /\ \A k \in 1..Len(secs) :
                  NextHeadingRow(lines, k) = HeadingRow(lines, k) + 1
                      => secs[k] = <<H2Title(lines, HeadingRow(lines, k)), <<"">>>>

\* C15, witness: a heading followed by a heading followed by the end
C15_Witness ==
    /\ br_pc = "parsed"
    /\ br_report = <<"## Technical Analysis", "## AI Investment Outlook  ">>
    /\ br_parsed.sections
          = <<<<"Technical Analysis", <<"">>>>, <<"AI Investment Outlook", <<"">>>>>>

\* the text has a match of '# Stock Analysis Report:\s*\w'
HasTitlePattern(text) ==
    \E j \in 1..Len(text) :
        /\ j + Len(TitlePattern) - 1 <= Len(text)
        /\ SubSeq(text, j, j + Len(TitlePattern) - 1) = TitlePattern
        /\ \E k \in (j + Len(TitlePattern))..Len(text) :
              /\ SubSeq(text, k, k) \in WordChars
              /\ \A m \in (j + Len(TitlePattern))..(k - 1) : SubSeq(text, m, m) \in Space

\* C16: on an input without the title pattern '# Stock Analysis Report: <word>',
\* _parse_markdown_report returns the ticker 'UNKNOWN' and does not raise; for
\* the input 'no title here' the result is ('UNKNOWN', []).
C16_MissingTitleGivesUnknown ==
    br_pc = "parsed" =>
        /\ ~HasTitlePattern(JoinLines(br_report)) => br_parsed.ticker = "UNKNOWN"
        /\ br_report = <<"no title here">>
              => br_parsed = [ticker |-> "UNKNOWN", sections |-> <<>>]

\* C16, witness: 'no title here' has been parsed
C16_Witness ==
    /\ br_pc = "parsed"
    /\ br_report = <<"no title here">>
    /\ br_parsed.ticker = "UNKNOWN"
    /\ br_parsed.sections = <<>>

\* C17: for every ticker T the router returns, parsing the report that
\* _build_report builds for T recovers exactly T, so the file is saved as
\* T_analysis_<timestamp>.html.
C17_TickerRoundTrips ==
    br_pc = "parsed" =>
        /\ br_parsed.ticker = br_result.ticker
        /\ ReportFileName(br_parsed.ticker, "2026-01-02_090000")
              = br_result.ticker \o "_analysis_2026-01-02_090000.html"

-----------------------------------------------------------------------------
(* output/html_report.py: _markdown_to_html.  The text is the sequence of its
   lines.  The four emphasis substitutions are applied line by line: `.` does
   not match a line end, so no match spans two lines. *)

RECURSIVE ReplaceFrom(_, _, _, _)
\* str.replace(c, r) for a one-character c, from index i on: up to the next
\* occurrence, its replacement, then the rest
ReplaceFrom(s, i, c, r) ==
    LET at == {j \in i..Len(s) : SubSeq(s, j, j) = c}
    IN  IF at = {} THEN SubSeq(s, i, Len(s))
        ELSE SubSeq(s, i, Min(at) - 1) \o r \o ReplaceFrom(s, Min(at) + 1, c, r)

ReplaceChar(s, c, r) == ReplaceFrom(s, 1, c, r)

\* as EscapeHtml, escaping the ampersand only
EscapeAmpOnly(s) == ReplaceChar(s, "&", "&amp;")

\* text.replace("&", "&amp;").replace("<", "&lt;").replace(">", "&gt;")
EscapeHtml(s) ==
    ReplaceChar(ReplaceChar(ReplaceChar(s, "&", "&amp;"), "<", "&lt;"), ">", "&gt;")

\* the string d stands at index i of s
At(s, i, d) == i >= 1 /\ i + Len(d) - 1 <= Len(s) /\ SubSeq(s, i, i + Len(d) - 1) = d

\* the indices at which the group of d(.+?)d can end when the match starts
\* at index i: the group is not empty
GroupEnds(s, i, d) == {j \in (i + Len(d) + 1)..Len(s) : At(s, j, d)}

RECURSIVE SubDelim(_, _, _, _, _)
\* re.sub(d(.+?)d, <tag>\1</tag>, s) from index i on: the text up to the
\* leftmost match, the match with its group as short as possible, then the
\* rest after the match
SubDelim(s, i, d, open, close) ==
    LET starts == {m \in i..Len(s) : At(s, m, d) /\ GroupEnds(s, m, d) # {}}
    IN  IF starts = {} THEN SubSeq(s, i, Len(s))
        ELSE LET m == Min(starts)
                 e == Min(GroupEnds(s, m, d))
             IN  SubSeq(s, i, m - 1)
                     \o open \o SubSeq(s, m + Len(d), e - 1) \o close
                     \o SubDelim(s, e + Len(d), d, open, close)

\* bold (** and __), then italic (* and _)
Emphasis(s) ==
    LET b1 == SubDelim(s, 1, "**", "<strong>", "</strong>")
        b2 == SubDelim(b1, 1, "__", "<strong>", "</strong>")
        i1 == SubDelim(b2, 1, "*", "<em>", "</em>")
    IN  SubDelim(i1, 1, "_", "<em>", "</em>")

\* the length of the match of ^\d+\.\s on s, 0 when it does not match
NumberPrefix(s) ==
    LET n == CharRunEnd(s, 1, Digits)
    IN  IF n > 1 /\ At(s, n, ".") /\ n + 1 <= Len(s)
           /\ SubSeq(s, n + 1, n + 1) \in Space
        THEN n + 1 ELSE 0

RECURSIVE Concat(_)
\* "".join(lines)
Concat(lines) == IF lines = <<>> THEN "" ELSE Head(lines) \o Concat(Tail(lines))

\* sub in s
Contains(s, sub) == \E i \in 1..Len(s) : At(s, i, sub)

\* result_lines[-10:]
LastTen(ls) == SubSeq(ls, IF Len(ls) > 10 THEN Len(ls) - 9 ELSE 1, Len(ls))

\* the tag that closes the open list: </ol> if "<ol>" is in the last ten
\* result lines, else </ul>
ClosingTag(result_lines) ==
    IF result_lines # <<>> /\ Contains(Concat(LastTen(result_lines)), "<ol>")
    THEN "</ol>" ELSE "</ul>"

\* as Paragraph, losing the text
ParagraphEmpty(stripped) == "<p></p>"

\* f"<p>{stripped}</p>"
Paragraph(stripped) == "<p>" \o stripped \o "</p>"

ListItem(content) == "<li>" \o content \o "</li>"

MdStart == [result_lines |-> <<>>, in_list |-> FALSE]

\* one iteration of `for line in lines`
MdLine(st, line) ==
    LET stripped == Strip(line)
        out == st.result_lines
    IN  IF StartsWith(stripped, "- ") \/ StartsWith(stripped, "* ")
        THEN [result_lines |->
                  (IF st.in_list THEN out ELSE Append(out, "<ul>"))
                      \o <<ListItem(SubSeq(stripped, 3, Len(stripped)))>>,
              in_list |-> TRUE]
        ELSE IF NumberPrefix(stripped) > 0
        THEN [result_lines |->
                  (IF st.in_list THEN out ELSE Append(out, "<ol>"))
                      \o <<ListItem(SubSeq(stripped, NumberPrefix(stripped) + 1,
                                           Len(stripped)))>>,
              in_list |-> TRUE]
        ELSE LET closed == IF st.in_list THEN Append(out, ClosingTag(out)) ELSE out
             IN  [result_lines |->
                      IF StartsWith(stripped, "### ")
                      THEN Append(closed, "<h3 class=\"subsection-title\">"
                                             \o SubSeq(stripped, 5, Len(stripped))
                                             \o "</h3>")
                      ELSE IF stripped # ""
                      THEN Append(closed, Paragraph(stripped))
                      ELSE closed,
                  in_list |-> FALSE]

RECURSIVE MdLines(_, _)
MdLines(st, lines) ==
    IF lines = <<>> THEN st ELSE MdLines(MdLine(st, Head(lines)), Tail(lines))

RecStrong == "<strong>Recommendation:</strong>"

RECURSIVE RecSub(_, _, _, _)
\* re.sub(r"<strong>Recommendation:</strong>\s*(WORD)", ... <span class=
\* "recommendation cls">\1</span>, s, flags=re.IGNORECASE), from index i on
RecSub(s, i, word, cls) ==
    LET starts == {m \in i..Len(s) :
                      /\ LitAt(s, m, RecStrong)
                      /\ LitAt(s, SkipSpace(s, m + Len(RecStrong)), word)}
    IN  IF starts = {} THEN SubSeq(s, i, Len(s))
        ELSE LET m == Min(starts)
                 k == SkipSpace(s, m + Len(RecStrong))
             IN  SubSeq(s, i, m - 1)
                     \o RecStrong \o " <span class=\"recommendation " \o cls \o "\">"
                     \o SubSeq(s, k, k + Len(word) - 1) \o "</span>"
                     \o RecSub(s, k + Len(word), word, cls)

\* the three recommendation substitutions.  Every line of the joined html
\* begins with "<", so a match of \s* never runs over a line end.
RecommendationStyle(s) ==
    RecSub(RecSub(RecSub(s, 1, "BUY", "buy"), 1, "HOLD", "hold"), 1, "SELL", "sell")

\* _markdown_to_html(text)
MarkdownToHtml(text) ==
    IF text = <<"">> THEN <<"">>
    ELSE LET styled == [i \in 1..Len(text) |-> Emphasis(EscapeHtml(text[i]))]
             st == MdLines(MdStart, styled)
             result_lines == IF st.in_list
                             THEN Append(st.result_lines, ClosingTag(st.result_lines))
                             ELSE st.result_lines
         IN  IF result_lines = <<>> THEN <<"">>
             ELSE [i \in 1..Len(result_lines) |-> RecommendationStyle(result_lines[i])]

\* the longest text, in lines
MaxMdLines == 3

\* the lines a section body is made of: prose, prose with irregular white
\* space, a decimal number at the start, special characters and a tag, the
\* recommendation line, list items of the three kinds, a sub-heading, an
\* empty line, emphasis
MdAlphabet ==
    {"Revenue grew 10% year over year",
     "  spaced   out  text ",
     "3.5 is the current ratio",
     "P/E < 30 & <b>margin</b> > 20%",
     "**Recommendation:** BUY (High Confidence)",
     "- bullet item",
     "* star item",
     "1. numbered item",
     "### Key Levels",
     "",
     "a **bold** and *italic* mix_of_names"}

MdInputs == UNION {[1..n -> MdAlphabet] : n \in 1..MaxMdLines}

\* html = _markdown_to_html(content)
DoMarkdownToHtml ==
    /\ md_pc = "input"
    /\ md_html' = MarkdownToHtml(md_text)
    /\ md_pc' = "converted"
    /\ UNCHANGED <<md_text, br_vars, tool_vars, svg_vars, io_vars, doc_vars, orch_vars, play_vars>>

InitMd ==
    /\ BrIdle /\ ToolIdle /\ SvgIdle /\ OutlookIdle /\ DocIdle /\ OrchInit /\ PlayInit /\ main = "direct"
    /\ md_pc = "input"
    /\ md_text \in MdInputs
    /\ md_html = <<"">>

NextMd == DoMarkdownToHtml

SpecMd == InitMd /\ [][NextMd]_vars

-----------------------------------------------------------------------------
(* Properties of _markdown_to_html, checked under SpecMd *)

RECURSIVE StripTagsFrom(_, _)
\* s from index i on, without its <...> spans
StripTagsFrom(s, i) ==
    LET opens == {j \in i..Len(s) :
                     /\ SubSeq(s, j, j) = "<"
                     /\ \E k \in (j + 1)..Len(s) : SubSeq(s, k, k) = ">"}
    IN  IF opens = {} THEN SubSeq(s, i, Len(s))
        ELSE LET o == Min(opens)
                 c == Min({k \in (o + 1)..Len(s) : SubSeq(s, k, k) = ">"})
             IN  SubSeq(s, i, o - 1) \o StripTagsFrom(s, c + 1)

StripTags(lines) == [i \in 1..Len(lines) |-> StripTagsFrom(lines[i], 1)]

RECURSIVE WordsFrom(_, _)
\* the words of s from index i on: the text modulo white space
WordsFrom(s, i) ==
    LET inked == {j \in i..Len(s) : SubSeq(s, j, j) \notin Space}
    IN  IF inked = {} THEN <<>>
        ELSE LET b == Min(inked)
                 gaps == {j \in b..Len(s) : SubSeq(s, j, j) \in Space}
                 e == IF gaps = {} THEN Len(s) + 1 ELSE Min(gaps)
             IN  <<SubSeq(s, b, e - 1)>> \o WordsFrom(s, e)

Words(lines) == WordsFrom(JoinLines(lines), 1)

HasChar(s, set) == \E j \in 1..Len(s) : SubSeq(s, j, j) \in set

\* the body has no literal '##'
NoH2(text) == \A i \in 1..Len(text) : ~Contains(text[i], "##")

\* a line without markup: none of * _ # & < > and no list marker in front
PlainLine(line) ==
    /\ ~HasChar(line, {"*", "_", "#", "&", "<", ">"})
    /\ ~StartsWith(LStrip(line), "- ")
    /\ ~(\E n \in 1..Len(LStrip(line)) :
            /\ \A j \in 1..n : SubSeq(LStrip(line), j, j) \in Digits
            /\ At(LStrip(line), n + 1, "."))

ListTags(html) == SelectSeq(html, LAMBDA l : l \in {"<ul>", "</ul>", "<ol>", "</ol>"})

\* C19: for every input the list tags of the output are well-formed: every
\* opening list tag is followed by the closing tag of the same kind before
\* any other list tag, and every closing tag closes such an opening tag.
C19_ListTagsAreWellFormed ==
    md_pc = "converted" =>
        LET tags == ListTags(md_html)
        IN  /\ Len(tags) % 2 = 0
            /\ \A i \in 1..Len(tags) :
                  i % 2 = 1 =>
                      \/ tags[i] = "<ul>" /\ tags[i + 1] = "</ul>"
                      \/ tags[i] = "<ol>" /\ tags[i + 1] = "</ol>"

\* the tags the converter writes
GeneratedTags ==
    {"<strong>", "</strong>", "<em>", "</em>", "<ul>", "</ul>", "<ol>", "</ol>",
     "<li>", "</li>", "<p>", "</p>", "<h3 class=\"subsection-title\">", "</h3>",
     "<span class=\"recommendation buy\">", "<span class=\"recommendation hold\">",
     "<span class=\"recommendation sell\">", "</span>"}

Entities == {"&amp;", "&lt;", "&gt;"}

\* how often the string d occurs in the lines
Count(lines, d) ==
    Cardinality({<<i, j>> \in (1..Len(lines)) \X (1..60) : At(lines[i], j, d)})

\* C20: each '&', '<' and '>' of the input is in the output as &amp;, &lt;
\* and &gt; and in no other form: every '<' of the output opens and every
\* '>' closes a tag the converter wrote, and every '&' begins an entity.
C20_SpecialCharactersAreEscaped ==
    md_pc = "converted" =>
        /\ \A i \in 1..Len(md_html) : \A j \in 1..Len(md_html[i]) :
              /\ SubSeq(md_html[i], j, j) = "<"
                    => \E t \in GeneratedTags : At(md_html[i], j, t)
              /\ SubSeq(md_html[i], j, j) = ">"
                    => \E t \in GeneratedTags : At(md_html[i], j - Len(t) + 1, t)
              /\ SubSeq(md_html[i], j, j) = "&"
                    => \E e \in Entities : At(md_html[i], j, e)
        /\ Count(md_html, "&amp;") = Count(md_text, "&")
        /\ Count(md_html, "&lt;") = Count(md_text, "<")
        /\ Count(md_html, "&gt;") = Count(md_text, ">")

\* C20, witness: a text with the three characters and a tag of its own, next
\* to a list the converter tags
C20_Witness ==
    /\ md_pc = "converted"
    /\ md_text = <<"P/E < 30 & <b>margin</b> > 20%", "- bullet item">>
    /\ md_html = <<"<p>P/E &lt; 30 &amp; &lt;b&gt;margin&lt;/b&gt; &gt; 20%</p>",
                   "<ul>", "<li>bullet item</li>", "</ul>">>

-----------------------------------------------------------------------------
(* output/html_report.py: _generate_svg_chart *)

\* a / b rounded to the nearest integer, a tie to the even one: what the
\* format specification .1f does to a value counted in tenths
RoundDiv(a, b) ==
    LET q == a \div b
        r == a % b
    IN  IF 2 * r < b THEN q
        ELSE IF 2 * r > b THEN q + 1
        ELSE IF q % 2 = 0 THEN q ELSE q + 1

SeqMin(xs) == Min({xs[i] : i \in 1..Len(xs)})
SeqMax(xs) == Max({xs[i] : i \in 1..Len(xs)})

DigitChars == <<"0", "1", "2", "3", "4", "5", "6", "7", "8", "9">>

\* the date of the i-th data point (from 0): consecutive days of one month
DateOf(i) == "2024-03-" \o DigitChars[((i + 1) \div 10) + 1] \o DigitChars[((i + 1) % 10) + 1]

UP_COLOR   == "#34c759"
DOWN_COLOR == "#ff3b30"

\* as LineColor, whatever the trend
LineColorAlwaysUp(closes) == UP_COLOR

\* line_color = "#34c759" if end_price >= start_price else "#ff3b30"
LineColor(closes) ==
    IF closes[Len(closes)] >= closes[1] THEN UP_COLOR ELSE DOWN_COLOR

\* as LabelStep, for five labels over the whole width
LabelStepCeiling(n) == IF n \div 4 < 1 THEN 1 ELSE (n + 3) \div 4

\* step = max(1, len(dates) // 4)
LabelStep(n) == IF n \div 4 < 1 THEN 1 ELSE n \div 4

\* range(0, len(dates), step)
LabelIndices(n) ==
    LET step == LabelStep(n)
    IN  [k \in 1..((n + step - 1) \div step) |-> (k - 1) * step]

\* x of the i-th of n points (from 0), in tenths of a pixel as :.1f prints it:
\* padding_left + (i / (n - 1)) * chart_width, or padding_left + chart_width / 2
PointX(i, n) == IF n > 1 THEN 600 + RoundDiv(8200 * i, n - 1) ELSE 600 + 4100

\* y of a close, in tenths of a pixel: padding_top + (1 - (close - min_price) /
\* price_range) * chart_height with min_price = min * 0.98, max_price = max * 1.02
\* and a price_range of 0 replaced by 1
PointY(close, closes) ==
    LET lo == 98 * SeqMin(closes)
        hi == 102 * SeqMax(closes)
    IN  IF hi = lo THEN 200 + 2400 * (1 - close)   \* every close is 0
        ELSE 200 + RoundDiv(2400 * (hi - 100 * close), hi - lo)

\* the parts of the SVG text that depend on the data; the empty string is
\* [empty |-> TRUE]
GenerateSvgChart(closes) ==
    IF closes = <<>> THEN [empty |-> TRUE]
    ELSE LET n == Len(closes)
             line_color == LineColor(closes)
         IN  [empty    |-> FALSE,
              points   |-> [i \in 1..n |-> <<PointX(i - 1, n), PointY(closes[i], closes)>>],
              stops    |-> <<line_color, line_color>>,
              stroke   |-> line_color,
              dot      |-> line_color,
              x_labels |-> [k \in 1..Len(LabelIndices(n)) |->
                               [x |-> PointX(LabelIndices(n)[k], n),
                                date_str |-> SubSeq(DateOf(LabelIndices(n)[k]), 6, 10)]]]

\* the longest series of which every course is tried, and the longest series
MaxFreePoints == 5
MaxPoints == 12

Prices == {0, 95, 100, 110}

\* the courses tried for the longer series: rising, falling, flat, wavering
Courses(n) ==
    {[i \in 1..n |-> 100 + i], [i \in 1..n |-> 200 - i], [i \in 1..n |-> 100],
     [i \in 1..n |-> 100 + (i % 3)]}

SvgInputs ==
    UNION {[1..n -> Prices] : n \in 0..MaxFreePoints}
        \cup UNION {Courses(n) : n \in (MaxFreePoints + 1)..MaxPoints}

\* svg_chart = _generate_svg_chart(price_history)
DoGenerateSvgChart ==
    /\ svg_pc = "input"
    /\ svg_out' = GenerateSvgChart(svg_closes)
    /\ svg_pc' = "drawn"
    /\ UNCHANGED <<svg_closes, br_vars, md_vars, tool_vars, io_vars, doc_vars, orch_vars, play_vars>>

InitSvg ==
    /\ BrIdle /\ MdIdle /\ ToolIdle /\ OutlookIdle /\ DocIdle /\ OrchInit /\ PlayInit /\ main = "direct"
    /\ svg_pc = "input"
    /\ svg_closes \in SvgInputs
    /\ svg_out = [empty |-> TRUE]

NextSvg == DoGenerateSvgChart

SpecSvg == InitSvg /\ [][NextSvg]_vars

-----------------------------------------------------------------------------
(* Properties of _generate_svg_chart, checked under SpecSvg *)

Increasing(xs) == \A i \in 1..(Len(xs) - 1) : xs[i] < xs[i + 1]
Decreasing(xs) == \A i \in 1..(Len(xs) - 1) : xs[i] > xs[i + 1]

\* the colour the chart is drawn in: of the line, the end dot and the gradient
ColoredIn(svg, color) ==
    svg.stroke = color /\ svg.dot = color /\ svg.stops = <<color, color>>

\* C21: the chart of an empty series is the empty string; a non-empty series
\* is drawn in #34c759 exactly when its last close is at least its first and
\* in #ff3b30 otherwise, so an increasing series is drawn in the up colour, a
\* decreasing one in the down colour, and a single point in the up colour in
\* the middle between the left and the right padding.
C21_ColorFollowsTrend ==
    svg_pc = "drawn" =>
        LET n == Len(svg_closes)
        IN  /\ svg_out.empty <=> n = 0
            /\ n >= 1 =>
                  /\ svg_closes[n] >= svg_closes[1] <=> ColoredIn(svg_out, "#34c759")
                  /\ svg_closes[n] < svg_closes[1] <=> ColoredIn(svg_out, "#ff3b30")
                  /\ Len(svg_out.points) = n
            /\ (n >= 2 /\ Increasing(svg_closes)) => ColoredIn(svg_out, "#34c759")
            /\ (n >= 2 /\ Decreasing(svg_closes)) => ColoredIn(svg_out, "#ff3b30")
            /\ n = 1 =>
                  /\ ColoredIn(svg_out, "#34c759")
                  /\ 2 * svg_out.points[1][1] = 600 + (9000 - 200)

\* C21, witness: a falling series drawn in the down colour
C21_Witness ==
    /\ svg_pc = "drawn"
    /\ svg_closes = <<110, 100, 95>>
    /\ svg_out.stroke = "#ff3b30"
    /\ svg_out.points[1][1] = 600 /\ svg_out.points[3][1] = 8800

\* the x-axis labels are those of the indices 0, s, 2s, ... below n
\* with s = max(1, floor(n / 4))
LabelsAtStride(svg, n) ==
    LET s == IF n >= 8 THEN n \div 4 ELSE 1
        at == {i \in 0..(n - 1) : i % s = 0}
    IN  /\ Len(svg.x_labels) = Cardinality(at)
        /\ \A k \in 1..Len(svg.x_labels) :
              /\ (k - 1) * s \in at
              /\ svg.x_labels[k].date_str = SubSeq(DateOf((k - 1) * s), 6, 10)
              /\ svg.x_labels[k].x = svg.points[(k - 1) * s + 1][1]

\* C22, as claimed: for every series length n >= 1 at most five x-axis date
\* labels are drawn, at the indices 0, s, 2s, ... below n with stride
\* s = max(1, floor(n / 4)).
C22_AtMostFiveLabels ==
    (svg_pc = "drawn" /\ Len(svg_closes) >= 1) =>
        /\ Len(svg_out.x_labels) <= 5
        /\ LabelsAtStride(svg_out, Len(svg_closes))

\* C22, amended: the labels are drawn at the indices 0, s, 2s, ... below n
\* with stride s = max(1, floor(n / 4)); there are at most five of them for
\* every n other than 6, 7 and 11, where there are six, seven and six.
C22_AtMostSevenLabels ==
    (svg_pc = "drawn" /\ Len(svg_closes) >= 1) =>
        LET n == Len(svg_closes)
        IN  /\ LabelsAtStride(svg_out, n)
            /\ Len(svg_out.x_labels) <= 7
            /\ n \notin {6, 7, 11} => Len(svg_out.x_labels) <= 5
            /\ n \in {6, 11} => Len(svg_out.x_labels) = 6
            /\ n = 7 => Len(svg_out.x_labels) = 7

\* C22, witness: a series of seven points with seven labels
C22_Witness ==
    /\ svg_pc = "drawn"
    /\ Len(svg_closes) = 7
    /\ Len(svg_out.x_labels) = 7
    /\ svg_out.x_labels[7] = [x |-> 8800, date_str |-> "03-07"]

-----------------------------------------------------------------------------
(* models.py: parse_investment_outlook applied to every input *)

\* the longest outlook text, in lines
MaxOutlookLines == 3

\* the lines an outlook is made of: the three markers as the prompt asks for
\* them, in another case and spacing, without their value or with a value of
\* another form, without the asterisks, a value on its own line, prose and
\* the empty line
OutlookAlphabet ==
    {"**Recommendation:** BUY (High Confidence)",
     "**recommendation:**   sell (low confidence)",
     "**Recommendation:** HOLD",
     "**Recommendation:** BUY (Very High Confidence)",
     "Recommendation: SELL (Low Confidence)",
     "**Price Target:** $150 (+10% from current)",
     "**Price Target:** about $150",
     "**Investment Thesis:** Strong trend.",
     "**Investment Thesis:**",
     "Earnings are due next week.",
     ""}

OutlookInputs == UNION {[1..n -> OutlookAlphabet] : n \in 1..MaxOutlookLines}

\* summary = parse_investment_outlook(outlook_text)
DoParseOutlook ==
    /\ io_pc = "input"
    /\ io_summary' = ParseInvestmentOutlook(io_text)
    /\ io_pc' = "parsed"
    /\ UNCHANGED <<io_text, br_vars, md_vars, tool_vars, svg_vars, doc_vars, orch_vars, play_vars>>

InitOutlook ==
    /\ BrIdle /\ MdIdle /\ ToolIdle /\ SvgIdle /\ DocIdle /\ OrchInit /\ PlayInit /\ main = "direct"
    /\ io_pc = "input"
    /\ io_text \in OutlookInputs
    /\ io_summary = [recommendation |-> "", confidence |-> "", price_target |-> "",
                     thesis |-> ""]

NextOutlook == DoParseOutlook

SpecOutlook == InitOutlook /\ [][NextOutlook]_vars

-----------------------------------------------------------------------------
(* Properties of parse_investment_outlook, checked under SpecOutlook *)

\* the lines that state a recommendation in the form
\* **Recommendation:** <BUY|HOLD|SELL> (<word> Confidence), and what they state
StatedLines ==
    {"**Recommendation:** BUY (High Confidence)",
     "**recommendation:**   sell (low confidence)"}

StatedRecommendation(line) ==
    IF line = "**Recommendation:** BUY (High Confidence)" THEN "BUY" ELSE "SELL"

StatedConfidence(line) ==
    IF line = "**Recommendation:** BUY (High Confidence)" THEN "High" ELSE "Low"

\* the marker is nowhere in the text, in any case
MarkerAbsent(text, marker) ==
    ~Contains(LowerStr(JoinLines(text)), LowerStr(marker))

\* C23: when the text states a recommendation in the form
\* '**Recommendation:** <BUY|HOLD|SELL> (<word> Confidence)', the summary has
\* that recommendation in upper case and that confidence (of the first such
\* statement); every field whose marker is absent is 'N/A', so all four are
\* for a text with no marker; recommendation and confidence are either both
\* 'N/A' or both set.
C23_OutlookFieldsOrNA ==
    io_pc = "parsed" =>
        LET stated == {i \in 1..Len(io_text) : io_text[i] \in StatedLines}
        IN  /\ stated # {} =>
                  /\ io_summary.recommendation = StatedRecommendation(io_text[Min(stated)])
                  /\ io_summary.confidence = StatedConfidence(io_text[Min(stated)])
            /\ MarkerAbsent(io_text, "**Recommendation:**") =>
                  io_summary.recommendation = "N/A" /\ io_summary.confidence = "N/A"
            /\ MarkerAbsent(io_text, "**Price Target:**") => io_summary.price_target = "N/A"
            /\ MarkerAbsent(io_text, "**Investment Thesis:**") => io_summary.thesis = "N/A"
            /\ io_summary.recommendation = "N/A" <=> io_summary.confidence = "N/A"
            /\ io_summary.recommendation \in {"BUY", "HOLD", "SELL", "N/A"}

\* C23, witness: a statement in lower case after a marker without confidence
C23_Witness ==
    /\ io_pc = "parsed"
    /\ io_text = <<"**Recommendation:** HOLD",
                   "**recommendation:**   sell (low confidence)",
                   "Earnings are due next week.">>
    /\ io_summary = [recommendation |-> "SELL", confidence |-> "Low",
                     price_target |-> "N/A", thesis |-> "N/A"]

-----------------------------------------------------------------------------
(* Properties of the graph state, checked under Spec *)

\* C24: the pipeline state carries a final_report field and the
\* investment-analyst step fills it: once investment_analyst_node has
\* returned, its update holds, together with ai_outlook, a final_report that
\* contains 'Stock Analysis Report', and final_report is a key of the state.
C24_InvestmentNodeFillsFinalReport ==
    node[INVESTMENT_ANALYST] = "done" =>
        /\ "final_report" \in DOMAIN state
        /\ "ai_outlook" \in DOMAIN updates[INVESTMENT_ANALYST]
        /\ "final_report" \in DOMAIN updates[INVESTMENT_ANALYST]
        /\ Contains(JoinLines(updates[INVESTMENT_ANALYST].final_report),
                    "Stock Analysis Report")

-----------------------------------------------------------------------------
(* Properties of the status notifications, checked under Spec *)

\* what an agent is told in an invoke that returns: RUNNING, then SKIPPED for
\* an analyst whose router flag is false and DONE for every other agent
Told(n) ==
    IF n \in Analysts /\ ~state[RunKey(n)] THEN <<RUNNING, SKIPPED>> ELSE <<RUNNING, DONE>>

\* C25: in every invoke that is given a status callback and in which no node
\* raises, each of the six agents gets exactly two notifications, RUNNING and
\* then DONE or SKIPPED; SKIPPED only an analyst whose router flag is false;
\* the router and the investment analyst end with DONE.  Until then, or when
\* a node has raised, an agent has been told nothing, RUNNING only, or both.
C25_TwoNotificationsPerAgent ==
    /\ \A n \in AgentEnum :
          \/ notified[n] = <<>>
          \/ notified[n] = <<RUNNING>> /\ (node[n] \in {"running", "failed"} \/ inv_pc = "raised")
          \/ /\ Len(notified[n]) = 2
             /\ notified[n][1] = RUNNING
             /\ notified[n][2] \in {DONE, SKIPPED}
             /\ notified[n][2] = SKIPPED => n \in Analysts
    /\ (inv_pc = "returned" /\ notified[ROUTER] # <<>>) =>
          \A n \in AgentEnum : notified[n] = Told(n)

\* C25, witness: an invoke with a callback that never raised has returned;
\* one analyst was skipped and another was not
C25_Witness ==
    /\ inv_pc = "returned"
    /\ ~cb_raised
    /\ notified[ROUTER] = <<RUNNING, DONE>>
    /\ notified[INVESTMENT_ANALYST] = <<RUNNING, DONE>>
    /\ notified[NEWS_ANALYST] = <<RUNNING, SKIPPED>>
    /\ notified[TECHNICAL_ANALYST] = <<RUNNING, DONE>>

-----------------------------------------------------------------------------
(* Properties of the worker's final sweep, checked under SpecPlay *)

\* C26: when the worker ends, whether the analysis function returned or
\* raised, every status that is not DONE or SKIPPED is set to DONE, a SKIPPED
\* entry is left as it is, and the stop event is set only after this sweep:
\* whenever the stop event is set, every status is DONE or SKIPPED.
C26_StopEventFollowsSweep ==
    /\ \A k \in 1..Len(AGENT_LABELS) :
          (worker = "finished" \/ (worker = "sweep" /\ k < sweep_i)) =>
              LET n == AGENT_LABELS[k]
              IN  /\ status[n] \in {DONE, SKIPPED}
                  /\ status[n] = SKIPPED <=>
                        (notified[n] # <<>> /\ Last(notified[n]) = SKIPPED)
    /\ stop_event =>
          /\ worker = "finished"
          /\ inv_pc \in {"returned", "raised"}
          /\ \A n \in AgentEnum : status[n] \in {DONE, SKIPPED}

\* C26, witness: the analysis raised in the investment analyst after an
\* analyst was skipped; the sweep has closed the entries left open
C26_Witness ==
    /\ stop_event
    /\ inv_pc = "raised"
    /\ notified[INVESTMENT_ANALYST] = <<RUNNING>>
    /\ status[INVESTMENT_ANALYST] = DONE
    /\ status[NEWS_ANALYST] = SKIPPED

-----------------------------------------------------------------------------
(* Termination of PlayAnimation.run, checked under SpecPlayFair *)

\* the steps of the thread that called run()
MainThread == RunBegin \/ RenderFrame \/ CompletionFrame \/ Join \/ RunEnd

\* the steps of the worker thread, the analysis function included
WorkerThread ==
    \/ WorkerCall
    \/ \E n \in AgentEnum : GraphStep(NodeEnter(n))
    \/ GraphStep(RouterNode)
    \/ \E a \in Analysts : GraphStep(AnalystNode(a))
    \/ GraphStep(InvestmentNode)
    \/ GraphStep(EndStep)
    \/ WorkerResult
    \/ WorkerSweep
    \/ WorkerStop

\* both threads are scheduled again and again; the sleeps of the render loop
\* and the join are bounded
SpecPlayFair == SpecPlay /\ WF_vars(MainThread) /\ WF_vars(WorkerThread)

\* C27: if the analysis function ends, by returning or raising, run() ends:
\* once the worker is started the stop event is eventually set and run()
\* returns or raises; the render loop draws at most 20 completion frames; and
\* the stop branch is never taken before the worker has finished.
C27_RunTerminates ==
    /\ (worker = "started") ~> (stop_event /\ main \in {"returned", "raised"})
    /\ [](main = "complete" => (worker = "finished" /\ stop_event))
    /\ [](frames <= 20)

\* C27, witness: run() has returned after the stop branch drew its 20 frames
C27_Witness ==
    /\ main = "returned"
    /\ stop_event
    /\ worker = "finished"
    /\ frames = 20

-----------------------------------------------------------------------------
(* Properties of the analysts' updates, checked under Spec *)

\* the output field of each analyst
OwnOutput(a) ==
    CASE a = "technical_analyst"   -> "technical_analysis"
      [] a = "fundamental_analyst" -> "fundamental_analysis"
      [] a = "news_analyst"        -> "news_analysis"
      [] a = "macro_analyst"       -> "macro_analysis"

\* C28: an analyst node returns an update for exactly one state key, its own
\* output, so it changes neither the ticker, the query, the run_* flags nor
\* another analyst's output: while the analysts run, in any order, the state
\* they read stays what the router left; the state the investment analyst
\* sees holds, for each analyst, that analyst's own answer, with the ticker
\* and the flags the analysts were run with; and the final report is the one
\* these answers determine.
C28_AnalystsWriteOnlyTheirOutput ==
    /\ \A a \in Analysts :
          node[a] = "done" => DOMAIN updates[a] = {OwnOutput(a)}
    /\ (\E a \in Analysts : node[a] # "off") =>
          /\ state.query = Query
          /\ \A a \in Analysts : state[OwnOutput(a)] = None
          /\ state.ai_outlook = None
    /\ node[INVESTMENT_ANALYST] # "off" =>
          /\ state.query = Query
          /\ \A a \in Analysts :
                /\ state[RunKey(a)] <=> agent_calls[a] # <<>>
                /\ state[RunKey(a)] =>
                      /\ Len(agent_calls[a]) = 1
                      /\ agent_calls[a][1].prompt = Prompt(a, state.ticker)
                /\ state[OwnOutput(a)] = AnswerOf(a)
    /\ inv_pc = "returned" =>
          /\ \A a \in Analysts : state[OwnOutput(a)] = AnswerOf(a)
          /\ inv_result.final_report = BuildReport(AnsweredResult)

\* C28, witness: the analysts end in another order than the graph lists them
\* in, the last two before the first two have returned
C28_Witness ==
    /\ node[MACRO_ANALYST] = "done"
    /\ node[NEWS_ANALYST] = "done"
    /\ node[TECHNICAL_ANALYST] = "running"
    /\ node[FUNDAMENTAL_ANALYST] = "ready"
    /\ updates[MACRO_ANALYST] = [macro_analysis |-> Prose]
    /\ updates[NEWS_ANALYST] = [news_analysis |-> None]

-----------------------------------------------------------------------------
(* output/html_report.py: _extract_recommendation and generate_html_report *)

\* where "**Recommendation:**" stands in the content: <<line, column>>
RecMarks(content) ==
    {<<k, c>> \in (1..Len(content)) \X (1..60) : At(content[k], c, "**Recommendation:**")}

\* re.search(r"\*\*Recommendation:\*\*\s*(.+?)(?:\n|$)", content): group 1,
\* stripped, or None when nothing but white space follows the first marker
RecText(content) ==
    IF RecMarks(content) = {} THEN None
    ELSE LET k == Min({m[1] : m \in RecMarks(content)})
             c == Min({m[2] : m \in {x \in RecMarks(content) : x[1] = k}})
             rest == Strip(SubSeq(content[k], c + 19, Len(content[k])))
             below == {j \in (k + 1)..Len(content) : Strip(content[j]) # ""}
         IN  IF rest # "" THEN Some(rest)
             ELSE IF below # {} THEN Some(Strip(content[Min(below)]))
             ELSE None

BadgeClass(rec_text) ==
    IF Contains(LowerStr(rec_text), "buy") THEN "buy"
    ELSE IF Contains(LowerStr(rec_text), "sell") THEN "sell"
    ELSE "hold"

\* the recommendation summary of the document header, as lines
RecommendationSummary(rec_text) ==
    <<"<div class=\"recommendation-summary\">",
      "                    <span class=\"label\">Recommendation:</span>",
      "                    <span class=\"recommendation " \o BadgeClass(rec_text) \o "\">"
          \o rec_text \o "</span>",
      "                </div>">>

\* _extract_recommendation(sections)
ExtractRecommendation(sections) ==
    LET found == {i \in 1..Len(sections) :
                     sections[i][1] = "AI Investment Outlook" /\ RecText(sections[i][2]) # None}
    IN  IF found = {} THEN <<"">>
        ELSE RecommendationSummary(RecText(sections[Min(found)][2])[1])

\* generate_html_report(markdown_report) without a price history: what it
\* puts into HTML_TEMPLATE
GenerateHtmlReport(markdown_report) ==
    LET parsed == ParseMarkdownReport(markdown_report)
    IN  [ticker |-> parsed.ticker,
         recommendation_summary |-> ExtractRecommendation(parsed.sections),
         sections |-> [i \in 1..Len(parsed.sections) |->
                          [title |-> parsed.sections[i][1],
                           content |-> MarkdownToHtml(parsed.sections[i][2])]]]

\* the longest report, in lines
MaxDocLines == 4

\* the lines a report is made of: the title, two section headings, the
\* recommendation as the prompt asks for it, with markup and special
\* characters of its own, without a value, prose with a comparison, and the
\* empty line
DocAlphabet ==
    {"# Stock Analysis Report: AAPL",
     "## AI Investment Outlook",
     "## Technical Analysis",
     "**Recommendation:** BUY (High Confidence)",
     "**Recommendation:** SELL <b>now</b> & hedge",
     "**Recommendation:**",
     "P/E < 30",
     ""}

DocInputs == UNION {[1..n -> DocAlphabet] : n \in 1..MaxDocLines}

\* html_content = generate_html_report(markdown_report, price_history)
DoGenerateHtmlReport ==
    /\ doc_pc = "input"
    /\ doc_html' = GenerateHtmlReport(doc_md)
    /\ doc_pc' = "generated"
    /\ UNCHANGED <<doc_md, br_vars, md_vars, tool_vars, svg_vars, io_vars, orch_vars, play_vars>>

InitHtml ==
    /\ BrIdle /\ MdIdle /\ ToolIdle /\ SvgIdle /\ OutlookIdle /\ OrchInit /\ PlayInit
    /\ main = "direct"
    /\ doc_pc = "input"
    /\ doc_md \in DocInputs
    /\ doc_html = [ticker |-> "", recommendation_summary |-> <<"">>, sections |-> <<>>]

NextHtml == DoGenerateHtmlReport

SpecHtml == InitHtml /\ [][NextHtml]_vars

-----------------------------------------------------------------------------
(* Properties of generate_html_report, checked under SpecHtml *)

\* the tags of the recommendation summary
SummaryTags ==
    {"<div class=\"recommendation-summary\">", "</div>", "<span class=\"label\">",
     "<span class=\"recommendation buy\">", "<span class=\"recommendation hold\">",
     "<span class=\"recommendation sell\">", "</span>"}

\* every '<' of the lines opens and every '>' closes one of the tags
OnlyTags(lines, tags) ==
    \A i \in 1..Len(lines) : \A j \in 1..Len(lines[i]) :
        /\ SubSeq(lines[i], j, j) = "<" => \E t \in tags : At(lines[i], j, t)
        /\ SubSeq(lines[i], j, j) = ">" => \E t \in tags : At(lines[i], j - Len(t) + 1, t)

\* C29: in the document generate_html_report produces, text taken from the
\* markdown report, that is the section bodies and the recommendation text of
\* the summary badge, contributes no raw '<' or '>': every '<' and '>' of the
\* summary and of the section contents belongs to a tag the generator wrote.
C29_ReportTextIsEscaped ==
    doc_pc = "generated" =>
        /\ OnlyTags(doc_html.recommendation_summary, SummaryTags)
        /\ \A i \in 1..Len(doc_html.sections) :
              OnlyTags(doc_html.sections[i].content, GeneratedTags)

-----------------------------------------------------------------------------
(* Properties of the Fear & Greed label, checked under SpecTools *)

\* the label of each class of values
LabelOfClass(v) ==
    CASE v <= 24      -> "Extreme Fear"
      [] v \in 25..44 -> "Fear"
      [] v \in 45..55 -> "Neutral"
      [] v \in 56..75 -> "Greed"
      [] v >= 76      -> "Extreme Greed"

\* C30: _get_fear_greed_label answers for every integer: 'Extreme Fear' up to
\* 24, 'Fear' for 25..44, 'Neutral' for 45..55, 'Greed' for 56..75 and
\* 'Extreme Greed' from 76 on, and None for None; get_fear_greed_index gives
\* this label only for a score that comes without a rating, and the rating of
\* the service otherwise.
C30_LabelPartitionsTheValues ==
    tool_pc = "returned" =>
        /\ tool_call.tool = "_get_fear_greed_label" =>
              /\ tool_out.kind = "return"
              /\ tool_call.value = None => tool_out.value = None
              /\ tool_call.value # None =>
                    tool_out.value = <<LabelOfClass(tool_call.value[1])>>
        /\ (tool_call.tool = "get_fear_greed_index" /\ tool_call.reply.kind = "score") =>
              /\ tool_out.value.value # None
              /\ tool_call.reply.rating # "" =>
                    tool_out.value.label = <<tool_call.reply.rating>>
              /\ tool_call.reply.rating = "" =>
                    tool_out.value.label = <<LabelOfClass(tool_out.value.value[1])>>

\* C30, witness: the lowest value of a class has the label of that class
C30_Witness ==
    /\ tool_pc = "returned"
    /\ tool_call = [tool |-> "_get_fear_greed_label", value |-> <<56>>]
    /\ tool_out = [kind |-> "return", value |-> <<"Greed">>]

====
